---- MODULE Spec2Model ----
(***************************************************************************)
(* Certificate authority trust store (lib/services/local/trust.go) over a  *)
(* versioned key-value backend.  Callers invoke the operations of the CA   *)
(* service concurrently; every backend call is one atomic step, so an      *)
(* operation that reads and then writes is two steps that other callers    *)
(* may interleave with.                                                     *)
(*                                                                         *)
(* A record's Expires and ResourceID travel with its value and are never   *)
(* inspected by the store; they are folded into the value here.            *)
(***************************************************************************)
EXTENDS Integers, Naturals, Sequences, FiniteSets, TLC

\* ------------------------------------------------------------------ bounds

\* Revisions the backend may issue (every successful write that puts takes one).
MaxRevision == 3

\* ------------------------------------------------------------- data model

Callers == {"c1", "c2"}

authoritiesPrefix == "authorities"
deactivatedPrefix == "deactivated"

UserCA == "user"
HostCA == "host"
DatabaseCA == "db"
DatabaseClientCA == "db_client"
CertAuthTypes == {UserCA, HostCA, DatabaseCA, DatabaseClientCA}
\* The types of the records callers pass.
CallerTypes == {UserCA, HostCA}

ClusterNames == {"one"}
\* Cluster names of records other services left in the backend.
StoredNames == {"one", "two"}
RoleMaps == {"rm1", "rm2"}
\* Secret key material; the empty string once it is stripped.
Secrets == "keys"

\* types.CertAuthID
ValidIds == [Type : CallerTypes, DomainName : ClusterNames]
\* An identity that fails CertAuthID.Check: its DomainName is empty.
BadId == [Type |-> UserCA, DomainName |-> ""]
AllIds == ValidIds \cup {BadId}
\* The identities a record in the backend may have.
StoredIds == [Type : CertAuthTypes, DomainName : StoredNames]

\* CertAuthID.Check: the structural check of an identity.
Check(id) == id.Type \in CertAuthTypes /\ id.DomainName # ""

\* A CertAuthority as callers hold it.  Revision 0 is the empty revision.
NewCA(id, rm, r) ==
    [Type |-> id.Type, DomainName |-> id.DomainName, SigningKeys |-> Secrets,
     RoleMap |-> rm, Revision |-> r]

NoCA == [Type |-> "", DomainName |-> "", SigningKeys |-> "", RoleMap |-> "", Revision |-> 0]

GetID(ca) == [Type |-> ca.Type, DomainName |-> ca.DomainName]

\* Bytes that are no serialized record at all.
Garbage == [Type |-> "garbage", DomainName |-> "", SigningKeys |-> "", RoleMap |-> ""]

\* services.UnmarshalCertAuthority returns an error.
UnmarshalError(bytes) == bytes = Garbage

\* services.ValidateCertAuthority: structural acceptability of a record.
ValidateCertAuthority(ca) == Check(GetID(ca)) /\ ca.RoleMap \in RoleMaps

\* services.MarshalCertAuthority: the stored bytes carry no revision.
MarshalCertAuthority(ca) ==
    [Type |-> ca.Type, DomainName |-> ca.DomainName, SigningKeys |-> ca.SigningKeys,
     RoleMap |-> ca.RoleMap]

\* services.UnmarshalCertAuthority(bytes, WithRevision(r)); r = 0 without the option.
UnmarshalCertAuthority(bytes, r) ==
    [Type |-> bytes.Type, DomainName |-> bytes.DomainName, SigningKeys |-> bytes.SigningKeys,
     RoleMap |-> bytes.RoleMap, Revision |-> r]

\* services.CertAuthoritiesEquivalent: equality on every field but the revision.
CertAuthoritiesEquivalent(a, b) == MarshalCertAuthority(a) = MarshalCertAuthority(b)

\* --------------------------------------------------------------- key scheme

\* backend.Key joins its parts with a separator; a key is its sequence of parts.
activeKey(id) == <<authoritiesPrefix, id.Type, id.DomainName>>
inactiveKey(id) == <<authoritiesPrefix, deactivatedPrefix, id.Type, id.DomainName>>

\* The keys of the backend: both slots of the identities callers pass, and the
\* Active slot of every identity a stored record may have.
Keys ==
    {activeKey(id) : id \in AllIds \cup StoredIds} \cup {inactiveKey(id) : id \in AllIds}

\* The separator of key parts, the byte of "/".
Separator == 47

\* The bytes (character codes) of a key part.
Spell(part) ==
    CASE part = "authorities" -> <<97, 117, 116, 104, 111, 114, 105, 116, 105, 101, 115>>
      [] part = "deactivated" -> <<100, 101, 97, 99, 116, 105, 118, 97, 116, 101, 100>>
      [] part = "user" -> <<117, 115, 101, 114>>
      [] part = "host" -> <<104, 111, 115, 116>>
      [] part = "db" -> <<100, 98>>
      [] part = "db_client" -> <<100, 98, 95, 99, 108, 105, 101, 110, 116>>
      [] part = "one" -> <<111, 110, 101>>
      [] part = "two" -> <<116, 119, 111>>
      [] part = "" -> <<>>

RECURSIVE KeyBytes(_)
\* backend.Key: every part preceded by the separator.
KeyBytes(parts) ==
    IF parts = <<>> THEN <<>>
    ELSE <<Separator>> \o Spell(Head(parts)) \o KeyBytes(Tail(parts))

\* backend.ExactKey: the key followed by the separator.
ExactKey(parts) == KeyBytes(parts) \o <<Separator>>

\* backend.RangeEnd: the key with its last byte incremented.
RangeEnd(bytes) == [bytes EXCEPT ![Len(bytes)] = bytes[Len(bytes)] + 1]

\* Byte-wise lexicographic order.
Less(a, b) ==
    \E i \in 1 .. Len(b) :
        /\ \A j \in 1 .. (i - 1) : j <= Len(a) /\ a[j] = b[j]
        /\ (i > Len(a) \/ a[i] < b[i])

\* The bytes of every key of the backend.
BytesOf == [k \in Keys |-> KeyBytes(k)]

\* ------------------------------------------------------------------ backend

NoValue == [Type |-> "", DomainName |-> "", SigningKeys |-> "", RoleMap |-> ""]
\* What a slot holds when its key is absent.
NoItem == [Value |-> NoValue, Revision |-> 0]

Exists(st, key) == st[key] # NoItem

\* Backend.Put: unconditional write under a fresh revision.
BackendPut(st, r, key, value) == [st EXCEPT ![key] = [Value |-> value, Revision |-> r]]

\* Backend.ConditionalUpdate: writes iff the key exists at the item's revision.
ConditionalUpdateOk(st, key, revision) == Exists(st, key) /\ st[key].Revision = revision

\* Backend.CompareAndSwap: writes iff the key still holds the expected item.
CompareAndSwapOk(st, key, expected) == Exists(st, key) /\ st[key] = expected

\* backend.ConditionalAction
NotExists == [kind |-> "NotExists", rev |-> 0]
Whatever == [kind |-> "Whatever", rev |-> 0]
Revision(r) == [kind |-> "Revision", rev |-> r]
Put(value) == [kind |-> "Put", Value |-> value]
Delete == [kind |-> "Delete", Value |-> NoValue]
CondAct(key, cond, act) == [Key |-> key, Condition |-> cond, Action |-> act]

ConditionHolds(st, ca) ==
    CASE ca.Condition.kind = "NotExists" -> ~Exists(st, ca.Key)
      [] ca.Condition.kind = "Whatever" -> TRUE
      [] ca.Condition.kind = "Revision" ->
            Exists(st, ca.Key) /\ st[ca.Key].Revision = ca.Condition.rev

\* Backend.AtomicWrite: every condition is checked against the same state.
AtomicWriteOk(st, condacts) ==
    \A i \in 1 .. Len(condacts) : ConditionHolds(st, condacts[i])

\* Mutant of AtomicWriteApply: a put is given no fresh revision; every record is
\* stored under the same one.
AtomicWriteApplyStale(st, r, condacts) ==
    [k \in DOMAIN st |->
        IF \E i \in 1 .. Len(condacts) : condacts[i].Key = k
        THEN LET i == CHOOSE j \in 1 .. Len(condacts) : condacts[j].Key = k
             IN IF condacts[i].Action.kind = "Put"
                THEN [Value |-> condacts[i].Action.Value, Revision |-> 1]
                ELSE NoItem
        ELSE st[k]]

\* Backend.AtomicWrite: every effect is applied, all under one fresh revision.
AtomicWriteApply(st, r, condacts) ==
    [k \in DOMAIN st |->
        IF \E i \in 1 .. Len(condacts) : condacts[i].Key = k
        THEN LET i == CHOOSE j \in 1 .. Len(condacts) : condacts[j].Key = k
             IN IF condacts[i].Action.kind = "Put"
                THEN [Value |-> condacts[i].Action.Value, Revision |-> r]
                ELSE NoItem
        ELSE st[k]]

\* The keys of the range [startKey, endKey).
InRange(key, startKey, endKey) ==
    ~Less(BytesOf[key], startKey) /\ Less(BytesOf[key], endKey)

\* Backend.DeleteRange
DeleteRange(st, startKey, endKey) ==
    [k \in DOMAIN st |-> IF InRange(k, startKey, endKey) THEN NoItem ELSE st[k]]

RECURSIVE SortedKeys(_)
\* The keys of a set in byte order.
SortedKeys(S) ==
    IF S = {} THEN <<>>
    ELSE LET k == CHOOSE x \in S : \A y \in S \ {x} : Less(BytesOf[x], BytesOf[y])
         IN <<k>> \o SortedKeys(S \ {k})

\* Backend.GetRange: the keys that exist in the range, in byte order.
GetRange(st, startKey, endKey) ==
    SortedKeys({k \in DOMAIN st : Exists(st, k) /\ InRange(k, startKey, endKey)})

\* --------------------------------------------------------------- the state

VARIABLES
    store,          \* the backend: key -> item (NoItem when absent)
    rev,            \* the last revision the backend issued
    pc,             \* each caller's position
    op,             \* the call a caller is in, with its arguments
    item,           \* the item a caller's operation read in its first step
    result,         \* what the caller's last call returned
    touched,        \* history: the key a caller read was written since it read it
    observations    \* history: the calls returned so far, each with the store it left

vars == <<store, rev, pc, op, item, result, touched, observations>>

NoOp == [name |-> "none"]
NoResult == [name |-> "none", err |-> "none", ca |-> NoCA, arg |-> NoCA, cas |-> <<>>]

\* The taxonomy kind a caller can branch on (trace.IsNotFound, trace.IsCompareFailed,
\* ...).  An error built with trace.Errorf has no kind; the three CompareFailed
\* errors differ only in where they are raised.
Kind(e) ==
    CASE e \in {"NotActive", "NotInactive", "ConcurrentModification"} -> "Untyped"
      [] e \in {"PreCheckFailed", "SwapFailed", "IncorrectRevision"} -> "CompareFailed"
      [] OTHER -> e

\* The key whose item a caller holds between its read and its fenced write.
WatchedKey(c) ==
    CASE op[c].name = "CompareAndSwap" -> <<authoritiesPrefix, op[c].new.Type, op[c].new.DomainName>>
      [] op[c].name = "Activate" -> inactiveKey(op[c].id)
      [] op[c].name = "Deactivate" -> activeKey(op[c].id)
      [] op[c].name = "UpdateUserCARoleMap" ->
            IF op[c].activated
            THEN activeKey([Type |-> UserCA, DomainName |-> op[c].cluster])
            ELSE inactiveKey([Type |-> UserCA, DomainName |-> op[c].cluster])

FencedSteps == {"CompareAndSwapSwap", "ActivateWrite", "DeactivateWrite", "RoleMapSwap"}

\* History: touched[c] becomes true when a step of another caller changes what the
\* key read by c holds (its value, its revision or its presence) while c waits to
\* write.  It is kept by every step, after the step's effect on the store.
Touch ==
    touched' = [c \in Callers |->
        IF pc[c] \in FencedSteps /\ pc'[c] = pc[c]
        THEN touched[c] \/ store'[WatchedKey(c)] # store[WatchedKey(c)]
        ELSE FALSE]

\* History: once a first observation is recorded, every return adds the caller,
\* its call, the error returned and the store the call left.
Observe(c, e) ==
    observations' =
        IF observations = <<>> THEN observations
        ELSE Append(observations, [caller |-> c, call |-> op[c], err |-> e, store |-> store'])

\* A caller's call returns: the caller holds what the call returned (name is the
\* operation that returned it, ca the record and cas the list it returned, arg the
\* record the caller passed as the call left it, for the one operation that sets
\* fields on a record).
ReturnAll(c, e, ca, arg, cas) ==
    /\ pc' = [pc EXCEPT ![c] = "returned"]
    /\ result' = [result EXCEPT ![c] =
            [name |-> op[c].name, err |-> e, ca |-> ca, arg |-> arg, cas |-> cas]]
    /\ item' = [item EXCEPT ![c] = NoItem]
    /\ op' = [op EXCEPT ![c] = NoOp]
    /\ Touch
    /\ Observe(c, e)

ReturnWith(c, e, ca, arg) == ReturnAll(c, e, ca, arg, <<>>)

Return(c, e) == ReturnWith(c, e, NoCA, NoCA)

\* A caller moves on to its write step, holding the item it read.
Goto(c, next, read) ==
    /\ pc' = [pc EXCEPT ![c] = next]
    /\ item' = [item EXCEPT ![c] = read]
    /\ Touch
    /\ UNCHANGED <<result, op, observations>>

\* The calls between their first step and their return.
InFlight == Cardinality({c \in Callers : pc[c] \notin {"idle", "returned"}})

\* A call may start while a revision is left for every call in flight.
CanCall(c) == pc[c] = "idle" /\ rev + InFlight < MaxRevision

Begin(c, o, first) ==
    /\ pc[c] = "idle"
    /\ op' = [op EXCEPT ![c] = o]
    /\ pc' = [pc EXCEPT ![c] = first]
    /\ UNCHANGED <<store, rev, item, result, observations>>
    /\ Touch

Call(c, o, first) == CanCall(c) /\ Begin(c, o, first)

\* The caller is done with what its call returned.
Finish(c) ==
    /\ pc[c] = "returned"
    /\ pc' = [pc EXCEPT ![c] = "idle"]
    /\ result' = [result EXCEPT ![c] = NoResult]
    /\ UNCHANGED <<store, rev, item, op, observations>>
    /\ Touch

\* ------------------------------------------------------------------ reads

\* setSigningKeys: the secrets are removed unless they are asked for.
setSigningKeys(ca, loadSigningKeys) ==
    IF loadSigningKeys THEN ca ELSE [ca EXCEPT !.SigningKeys = ""]

\* Mutant of GetCertAuthority: the record is deserialized without the revision of
\* its item.
GetCertAuthorityNoRevision(st, id, loadSigningKeys) ==
    IF ~Check(id) THEN [err |-> "BadParameter", ca |-> NoCA]
    ELSE IF ~Exists(st, activeKey(id)) THEN [err |-> "NotFound", ca |-> NoCA]
    ELSE IF UnmarshalError(st[activeKey(id)].Value) THEN [err |-> "BadParameter", ca |-> NoCA]
    ELSE LET ca == UnmarshalCertAuthority(st[activeKey(id)].Value, 0)
         IN IF ~ValidateCertAuthority(ca) THEN [err |-> "BadParameter", ca |-> NoCA]
            ELSE [err |-> "nil", ca |-> setSigningKeys(ca, loadSigningKeys)]

\* Mutant of GetCertAuthority: the secrets are removed whatever the caller asks.
GetCertAuthorityStripped(st, id, loadSigningKeys) ==
    IF ~Check(id) THEN [err |-> "BadParameter", ca |-> NoCA]
    ELSE IF ~Exists(st, activeKey(id)) THEN [err |-> "NotFound", ca |-> NoCA]
    ELSE IF UnmarshalError(st[activeKey(id)].Value) THEN [err |-> "BadParameter", ca |-> NoCA]
    ELSE LET ca == UnmarshalCertAuthority(st[activeKey(id)].Value, st[activeKey(id)].Revision)
         IN IF ~ValidateCertAuthority(ca) THEN [err |-> "BadParameter", ca |-> NoCA]
            ELSE [err |-> "nil", ca |-> setSigningKeys(ca, FALSE)]

\* Mutant of GetCertAuthority: when the Active slot is absent the Inactive slot is
\* read in its place.
GetCertAuthorityEitherSlot(st, id, loadSigningKeys) ==
    LET key == IF Exists(st, activeKey(id)) THEN activeKey(id) ELSE inactiveKey(id)
    IN IF ~Check(id) THEN [err |-> "BadParameter", ca |-> NoCA]
       ELSE IF ~Exists(st, key) THEN [err |-> "NotFound", ca |-> NoCA]
       ELSE IF UnmarshalError(st[key].Value) THEN [err |-> "BadParameter", ca |-> NoCA]
       ELSE LET ca == UnmarshalCertAuthority(st[key].Value, st[key].Revision)
            IN IF ~ValidateCertAuthority(ca) THEN [err |-> "BadParameter", ca |-> NoCA]
               ELSE [err |-> "nil", ca |-> setSigningKeys(ca, loadSigningKeys)]

\* CA.GetCertAuthority: what it returns from a store.
GetCertAuthority(st, id, loadSigningKeys) ==
    IF ~Check(id) THEN [err |-> "BadParameter", ca |-> NoCA]
    ELSE IF ~Exists(st, activeKey(id)) THEN [err |-> "NotFound", ca |-> NoCA]
    ELSE IF UnmarshalError(st[activeKey(id)].Value) THEN [err |-> "BadParameter", ca |-> NoCA]
    ELSE LET ca == UnmarshalCertAuthority(st[activeKey(id)].Value, st[activeKey(id)].Revision)
         IN IF ~ValidateCertAuthority(ca) THEN [err |-> "BadParameter", ca |-> NoCA]
            ELSE [err |-> "nil", ca |-> setSigningKeys(ca, loadSigningKeys)]

CallGet(c) ==
    \E id \in AllIds, loadSigningKeys \in BOOLEAN :
        Call(c, [name |-> "Get", id |-> id, loadSigningKeys |-> loadSigningKeys], "Get")

\* Mutant of GetCertAuthorityCall: the record is written back as it is returned,
\* without its secrets when they were not asked for.
GetCertAuthorityCallPersisting(c) ==
    /\ pc[c] = "Get"
    /\ LET got == GetCertAuthority(store, op[c].id, op[c].loadSigningKeys)
       IN /\ store' = IF got.err = "nil"
                       THEN [store EXCEPT ![activeKey(op[c].id)].Value =
                                MarshalCertAuthority(got.ca)]
                       ELSE store
          /\ UNCHANGED rev
          /\ ReturnWith(c, got.err, got.ca, NoCA)

\* CA.GetCertAuthority as a call.
GetCertAuthorityCall(c) ==
    /\ pc[c] = "Get"
    /\ UNCHANGED <<store, rev>>
    /\ LET got == GetCertAuthority(store, op[c].id, op[c].loadSigningKeys)
       IN ReturnWith(c, got.err, got.ca, NoCA)

\* A type that fails CertAuthType.Check.
BadType == ""

\* The list GetCertAuthorities builds from the items of a range: one entry for
\* each item, left nil (NoCA) when the item does not deserialize or validate.
ListedCertAuthorities(st, keys, loadSigningKeys) ==
    [i \in 1 .. Len(keys) |->
        IF UnmarshalError(st[keys[i]].Value) THEN NoCA
        ELSE LET ca == UnmarshalCertAuthority(st[keys[i]].Value, st[keys[i]].Revision)
             IN IF ~ValidateCertAuthority(ca) THEN NoCA
                ELSE setSigningKeys(ca, loadSigningKeys)]

CallGetCertAuthorities(c) ==
    \E caType \in CertAuthTypes \cup {BadType}, loadSigningKeys \in BOOLEAN :
        Call(c, [name |-> "GetCertAuthorities", caType |-> caType,
                 loadSigningKeys |-> loadSigningKeys], "GetCertAuthorities")

\* Mutant of GetCertAuthorities: the range starts at the key of the type without
\* its trailing separator.
GetCertAuthoritiesNaivePrefix(c) ==
    /\ pc[c] = "GetCertAuthorities"
    /\ UNCHANGED <<store, rev>>
    /\ LET startKey == KeyBytes(<<authoritiesPrefix, op[c].caType>>)
           keys == GetRange(store, startKey, RangeEnd(startKey))
       IN IF op[c].caType \notin CertAuthTypes
          THEN Return(c, "BadParameter")
          ELSE ReturnAll(c, "nil", NoCA, NoCA,
                         ListedCertAuthorities(store, keys, op[c].loadSigningKeys))

\* Mutant of GetCertAuthorities: the range of the Inactive slots of the type is
\* listed after that of the Active slots.
GetCertAuthoritiesBothSlots(c) ==
    /\ pc[c] = "GetCertAuthorities"
    /\ UNCHANGED <<store, rev>>
    /\ LET startKey == ExactKey(<<authoritiesPrefix, op[c].caType>>)
           inactiveStart == ExactKey(<<authoritiesPrefix, deactivatedPrefix, op[c].caType>>)
           keys == GetRange(store, startKey, RangeEnd(startKey))
                   \o GetRange(store, inactiveStart, RangeEnd(inactiveStart))
       IN IF op[c].caType \notin CertAuthTypes
          THEN Return(c, "BadParameter")
          ELSE ReturnAll(c, "nil", NoCA, NoCA,
                         ListedCertAuthorities(store, keys, op[c].loadSigningKeys))

\* CA.GetCertAuthorities
GetCertAuthorities(c) ==
    /\ pc[c] = "GetCertAuthorities"
    /\ UNCHANGED <<store, rev>>
    /\ LET startKey == ExactKey(<<authoritiesPrefix, op[c].caType>>)
           keys == GetRange(store, startKey, RangeEnd(startKey))
       IN IF op[c].caType \notin CertAuthTypes
          THEN Return(c, "BadParameter")
          ELSE ReturnAll(c, "nil", NoCA, NoCA,
                         ListedCertAuthorities(store, keys, op[c].loadSigningKeys))

\* ----------------------------------------------------------------- create

\* The records callers pass: every valid one, and one that fails validation.
InputCAs ==
    {NewCA(id, rm, 0) : id \in ValidIds, rm \in RoleMaps} \cup {NewCA(BadId, "rm1", 0)}

\* The batches a caller passes: one record, or two of different identities.
Batches ==
    {<<a>> : a \in InputCAs} \cup
    {s \in {<<a, b>> : a \in InputCAs, b \in InputCAs} :
        GetID(s[1]) # GetID(s[2]) /\ s[1].RoleMap = s[2].RoleMap}

CallCreate(c) ==
    \E cas \in Batches : Call(c, [name |-> "Create", cas |-> cas], "Create")

\* Mutant of CreateCondActs: the Put of the Active slot is not guarded by NotExists.
CreateCondActsUnguarded(cas) ==
    [i \in 1 .. 2 * Len(cas) |->
        IF i % 2 = 1
        THEN CondAct(activeKey(GetID(cas[(i + 1) \div 2])), Whatever,
                     Put(MarshalCertAuthority(cas[(i + 1) \div 2])))
        ELSE CondAct(inactiveKey(GetID(cas[i \div 2])), Whatever, Delete)]

\* Mutant of CreateCondActs: the Inactive slot is left alone.
CreateCondActsNoCleanup(cas) ==
    [i \in 1 .. Len(cas) |->
        CondAct(activeKey(GetID(cas[i])), NotExists, Put(MarshalCertAuthority(cas[i])))]

\* The two actions CreateCertAuthorities emits for each record of the batch.
CreateCondActs(cas) ==
    [i \in 1 .. 2 * Len(cas) |->
        IF i % 2 = 1
        THEN CondAct(activeKey(GetID(cas[(i + 1) \div 2])), NotExists,
                     Put(MarshalCertAuthority(cas[(i + 1) \div 2])))
        ELSE CondAct(inactiveKey(GetID(cas[i \div 2])), Whatever, Delete)]

\* Mutant of CreateCertAuthorities: a record that fails validation is left out of
\* the batch and the others are written.
CreateCertAuthoritiesSkipInvalid(c) ==
    /\ pc[c] = "Create"
    /\ LET cas == SelectSeq(op[c].cas, ValidateCertAuthority) IN
       IF AtomicWriteOk(store, CreateCondActs(cas))
       THEN /\ store' = AtomicWriteApply(store, rev + 1, CreateCondActs(cas))
            /\ rev' = rev + 1
            /\ Return(c, IF Len(cas) < Len(op[c].cas) THEN "BadParameter" ELSE "nil")
       ELSE UNCHANGED <<store, rev>> /\ Return(c, "AlreadyExists")

\* Mutant of CreateCertAuthorities: a failed condition of the batch is not reported.
CreateCertAuthoritiesSilent(c) ==
    /\ pc[c] = "Create"
    /\ LET cas == op[c].cas IN
       IF \E i \in 1 .. Len(cas) : ~ValidateCertAuthority(cas[i])
       THEN UNCHANGED <<store, rev>> /\ Return(c, "BadParameter")
       ELSE IF AtomicWriteOk(store, CreateCondActs(cas))
       THEN /\ store' = AtomicWriteApply(store, rev + 1, CreateCondActs(cas))
            /\ rev' = rev + 1
            /\ Return(c, "nil")
       ELSE UNCHANGED <<store, rev>> /\ Return(c, "nil")

\* Mutant of CreateCertAuthorities: the stale Inactive records are removed even
\* when the batch is refused.
CreateCertAuthoritiesCleanupFirst(c) ==
    /\ pc[c] = "Create"
    /\ LET cas == op[c].cas IN
       IF \E i \in 1 .. Len(cas) : ~ValidateCertAuthority(cas[i])
       THEN UNCHANGED <<store, rev>> /\ Return(c, "BadParameter")
       ELSE IF AtomicWriteOk(store, CreateCondActs(cas))
       THEN /\ store' = AtomicWriteApply(store, rev + 1, CreateCondActs(cas))
            /\ rev' = rev + 1
            /\ Return(c, "nil")
       ELSE /\ store' = [k \in Keys |->
                           IF \E i \in 1 .. Len(cas) : k = inactiveKey(GetID(cas[i]))
                           THEN NoItem ELSE store[k]]
            /\ rev' = rev
            /\ Return(c, "AlreadyExists")

\* CA.CreateCertAuthorities
CreateCertAuthorities(c) ==
    /\ pc[c] = "Create"
    /\ LET cas == op[c].cas IN
       IF \E i \in 1 .. Len(cas) : ~ValidateCertAuthority(cas[i])
       THEN UNCHANGED <<store, rev>> /\ Return(c, "BadParameter")
       ELSE IF AtomicWriteOk(store, CreateCondActs(cas))
       THEN /\ store' = AtomicWriteApply(store, rev + 1, CreateCondActs(cas))
            /\ rev' = rev + 1
            /\ Return(c, "nil")
       ELSE UNCHANGED <<store, rev>> /\ Return(c, "AlreadyExists")

\* ----------------------------------------------------------------- upsert

CallUpsert(c) ==
    \E ca \in InputCAs : Call(c, [name |-> "Upsert", ca |-> ca], "UpsertRead")

\* Mutant of UpsertCertAuthorityRead: the write is never skipped.
UpsertCertAuthorityReadAlwaysPut(c) ==
    /\ pc[c] = "UpsertRead"
    /\ UNCHANGED <<store, rev>>
    /\ IF ~ValidateCertAuthority(op[c].ca)
       THEN Return(c, "BadParameter")
       ELSE Goto(c, "UpsertPut", NoItem)

\* CA.UpsertCertAuthority, up to its read: validation, then the skip of a write
\* that would have no effect.
UpsertCertAuthorityRead(c) ==
    /\ pc[c] = "UpsertRead"
    /\ UNCHANGED <<store, rev>>
    /\ LET ca == op[c].ca
           existing == GetCertAuthority(store, GetID(ca), TRUE)
       IN IF ~ValidateCertAuthority(ca)
          THEN Return(c, "BadParameter")
          ELSE IF existing.err = "nil" /\ CertAuthoritiesEquivalent(existing.ca, ca)
          THEN Return(c, "nil")
          ELSE Goto(c, "UpsertPut", NoItem)

\* CA.UpsertCertAuthority, its unconditional Put of the Active slot.
UpsertCertAuthorityPut(c) ==
    /\ pc[c] = "UpsertPut"
    /\ store' = BackendPut(store, rev + 1, activeKey(GetID(op[c].ca)),
                           MarshalCertAuthority(op[c].ca))
    /\ rev' = rev + 1
    /\ Return(c, "nil")

\* ----------------------------------------------------------------- update

\* The records a caller passes to UpdateCertAuthority: each carries a revision it
\* may have observed (any issued so far) or none.
CallUpdate(c) ==
    \E ca \in InputCAs, r \in 0 .. rev :
        /\ (GetID(ca) = BadId => r = 0)
        /\ Call(c, [name |-> "Update", ca |-> [ca EXCEPT !.Revision = r]], "Update")

\* Mutant of UpdatedCopy: the revision is set on the caller's record (no Clone).
UpdatedCopyAliased(ca, revision) ==
    [returned |-> [ca EXCEPT !.Revision = revision], arg |-> [ca EXCEPT !.Revision = revision]]

\* ca.Clone() followed by SetRevision: the record returned, and the caller's own.
UpdatedCopy(ca, revision) == [returned |-> [ca EXCEPT !.Revision = revision], arg |-> ca]

\* Mutant of UpdateCertAuthority: a plain Put stands where the revision-conditioned
\* update should be.
UpdateCertAuthorityUnfenced(c) ==
    /\ pc[c] = "Update"
    /\ LET ca == op[c].ca
           key == activeKey(GetID(ca))
           out == UpdatedCopy(ca, rev + 1)
       IN IF ~ValidateCertAuthority(ca)
          THEN UNCHANGED <<store, rev>> /\ ReturnWith(c, "BadParameter", NoCA, ca)
          ELSE /\ store' = BackendPut(store, rev + 1, key, MarshalCertAuthority(ca))
               /\ rev' = rev + 1
               /\ ReturnWith(c, "nil", out.returned, out.arg)

\* Mutant of UpdateCertAuthority: on a revision mismatch the record is written over
\* the stored one all the same.
UpdateCertAuthorityRetrying(c) ==
    /\ pc[c] = "Update"
    /\ LET ca == op[c].ca
           key == activeKey(GetID(ca))
           out == UpdatedCopy(ca, rev + 1)
       IN IF ~ValidateCertAuthority(ca)
          THEN UNCHANGED <<store, rev>> /\ ReturnWith(c, "BadParameter", NoCA, ca)
          ELSE IF Exists(store, key)
          THEN /\ store' = BackendPut(store, rev + 1, key, MarshalCertAuthority(ca))
               /\ rev' = rev + 1
               /\ ReturnWith(c, "nil", out.returned, out.arg)
          ELSE UNCHANGED <<store, rev>> /\ ReturnWith(c, "IncorrectRevision", NoCA, ca)

\* Mutant of UpdateCertAuthority: the update only compares revisions, so a record
\* carrying no revision is written into an absent slot.
UpdateCertAuthorityCreating(c) ==
    /\ pc[c] = "Update"
    /\ LET ca == op[c].ca
           key == activeKey(GetID(ca))
           out == UpdatedCopy(ca, rev + 1)
       IN IF ~ValidateCertAuthority(ca)
          THEN UNCHANGED <<store, rev>> /\ ReturnWith(c, "BadParameter", NoCA, ca)
          ELSE IF store[key].Revision = ca.Revision
          THEN /\ store' = BackendPut(store, rev + 1, key, MarshalCertAuthority(ca))
               /\ rev' = rev + 1
               /\ ReturnWith(c, "nil", out.returned, out.arg)
          ELSE UNCHANGED <<store, rev>> /\ ReturnWith(c, "IncorrectRevision", NoCA, ca)

\* CA.UpdateCertAuthority
UpdateCertAuthority(c) ==
    /\ pc[c] = "Update"
    /\ LET ca == op[c].ca
           key == activeKey(GetID(ca))
           out == UpdatedCopy(ca, rev + 1)
       IN IF ~ValidateCertAuthority(ca)
          THEN UNCHANGED <<store, rev>> /\ ReturnWith(c, "BadParameter", NoCA, ca)
          ELSE IF ConditionalUpdateOk(store, key, ca.Revision)
          THEN /\ store' = BackendPut(store, rev + 1, key, MarshalCertAuthority(ca))
               /\ rev' = rev + 1
               /\ ReturnWith(c, "nil", out.returned, out.arg)
          ELSE UNCHANGED <<store, rev>> /\ ReturnWith(c, "IncorrectRevision", NoCA, ca)

\* ------------------------------------------------------- compare and swap

CallCompareAndSwap(c) ==
    \E new \in InputCAs, rm \in RoleMaps :
        /\ (GetID(new) = BadId => rm = "rm1")
        /\ Call(c, [name |-> "CompareAndSwap", new |-> new,
                    expected |-> NewCA(GetID(new), rm, 0)], "CompareAndSwapRead")

\* The key CompareAndSwapCertAuthority builds for the record.
CompareAndSwapKey(new) == <<authoritiesPrefix, new.Type, new.DomainName>>

\* Mutant of CompareAndSwapCertAuthorityRead: the stored record is not compared
\* with the expected one.
CompareAndSwapCertAuthorityReadNoPreCheck(c) ==
    /\ pc[c] = "CompareAndSwapRead"
    /\ UNCHANGED <<store, rev>>
    /\ LET new == op[c].new
           key == CompareAndSwapKey(new)
       IN IF ~ValidateCertAuthority(new)
          THEN Return(c, "BadParameter")
          ELSE IF ~Exists(store, key)
          THEN Return(c, "NotFound")
          ELSE Goto(c, "CompareAndSwapSwap", store[key])

\* CA.CompareAndSwapCertAuthority, up to its pre-check of the stored record.
CompareAndSwapCertAuthorityRead(c) ==
    /\ pc[c] = "CompareAndSwapRead"
    /\ UNCHANGED <<store, rev>>
    /\ LET new == op[c].new
           key == CompareAndSwapKey(new)
           actual == UnmarshalCertAuthority(store[key].Value, 0)
       IN IF ~ValidateCertAuthority(new)
          THEN Return(c, "BadParameter")
          ELSE IF ~Exists(store, key)
          THEN Return(c, "NotFound")
          ELSE IF UnmarshalError(store[key].Value)
          THEN Return(c, "BadParameter")
          ELSE IF ~CertAuthoritiesEquivalent(actual, op[c].expected)
          THEN Return(c, "PreCheckFailed")
          ELSE Goto(c, "CompareAndSwapSwap", store[key])

\* Mutant of CompareAndSwapCertAuthoritySwap: a plain Put stands where the backend
\* compare-and-swap should be.
CompareAndSwapCertAuthoritySwapPut(c) ==
    /\ pc[c] = "CompareAndSwapSwap"
    /\ store' = BackendPut(store, rev + 1, CompareAndSwapKey(op[c].new),
                           MarshalCertAuthority(op[c].new))
    /\ rev' = rev + 1
    /\ Return(c, "nil")

\* CA.CompareAndSwapCertAuthority, its backend compare-and-swap against the item read.
CompareAndSwapCertAuthoritySwap(c) ==
    /\ pc[c] = "CompareAndSwapSwap"
    /\ LET new == op[c].new
           key == CompareAndSwapKey(new)
       IN IF CompareAndSwapOk(store, key, item[c])
          THEN /\ store' = BackendPut(store, rev + 1, key, MarshalCertAuthority(new))
               /\ rev' = rev + 1
               /\ Return(c, "nil")
          ELSE UNCHANGED <<store, rev>> /\ Return(c, "SwapFailed")

\* ----------------------------------------------------------------- delete

IdLists ==
    {<<a>> : a \in AllIds} \cup {s \in {<<a, b>> : a \in AllIds, b \in AllIds} : s[1] # s[2]}

CallDelete(c) ==
    \E ids \in IdLists : Call(c, [name |-> "Delete", ids |-> ids], "Delete")

\* Mutant of DeleteCondActs: only the Active slot of each identity is deleted.
DeleteCondActsActiveOnly(ids) ==
    [i \in 1 .. Len(ids) |-> CondAct(activeKey(ids[i]), Whatever, Delete)]

\* Mutant of DeleteCondActs: the delete is keyed by the cluster name alone and
\* removes the Active records of both caller types under it.
DeleteCondActsSweep(ids) ==
    [i \in 1 .. 2 * Len(ids) |->
        IF i % 2 = 1
        THEN CondAct(activeKey([Type |-> UserCA, DomainName |-> ids[(i + 1) \div 2].DomainName]),
                     Whatever, Delete)
        ELSE CondAct(activeKey([Type |-> HostCA, DomainName |-> ids[i \div 2].DomainName]),
                     Whatever, Delete)]

\* The two unconditional deletes DeleteCertAuthorities emits for each identity.
DeleteCondActs(ids) ==
    [i \in 1 .. 2 * Len(ids) |->
        IF i % 2 = 1
        THEN CondAct(activeKey(ids[(i + 1) \div 2]), Whatever, Delete)
        ELSE CondAct(inactiveKey(ids[i \div 2]), Whatever, Delete)]

\* Mutant of DeleteCertAuthorities: the identities are deleted one after the
\* other, up to the first that fails its check.
DeleteCertAuthoritiesOneByOne(c) ==
    /\ pc[c] = "Delete"
    /\ UNCHANGED rev
    /\ LET ids == op[c].ids
           bad == {i \in 1 .. Len(ids) : ~Check(ids[i])}
           done == IF bad = {} THEN ids
                   ELSE SubSeq(ids, 1, (CHOOSE i \in bad : \A j \in bad : i <= j) - 1)
       IN /\ store' = AtomicWriteApply(store, rev, DeleteCondActs(done))
          /\ Return(c, IF bad = {} THEN "nil" ELSE "BadParameter")

\* CA.DeleteCertAuthorities
DeleteCertAuthorities(c) ==
    /\ pc[c] = "Delete"
    /\ UNCHANGED rev
    /\ LET ids == op[c].ids IN
       IF \E i \in 1 .. Len(ids) : ~Check(ids[i])
       THEN UNCHANGED store /\ Return(c, "BadParameter")
       ELSE /\ store' = AtomicWriteApply(store, rev, DeleteCondActs(ids))
            /\ Return(c, "nil")

CallDeleteAll(c) ==
    \E t \in CertAuthTypes : Call(c, [name |-> "DeleteAll", caType |-> t], "DeleteAll")

\* Mutant of DeleteAllStartKey: the start key is the bare key of the type, without
\* the separator that closes it.
DeleteAllStartKeyNaive(caType) == KeyBytes(<<authoritiesPrefix, caType>>)

\* The start key of the range of a type.
DeleteAllStartKey(caType) == ExactKey(<<authoritiesPrefix, caType>>)

\* CA.DeleteAllCertAuthorities
DeleteAllCertAuthorities(c) ==
    /\ pc[c] = "DeleteAll"
    /\ store' = DeleteRange(store, DeleteAllStartKey(op[c].caType),
                            RangeEnd(DeleteAllStartKey(op[c].caType)))
    /\ UNCHANGED rev
    /\ Return(c, "nil")

\* --------------------------------------------------------------- rotation

CallActivate(c) ==
    \E id \in AllIds : Call(c, [name |-> "Activate", id |-> id], "ActivateRead")

\* Mutant of ActivateCertAuthorityRead: an absent Inactive slot is no error.
ActivateCertAuthorityReadLenient(c) ==
    /\ pc[c] = "ActivateRead"
    /\ UNCHANGED <<store, rev>>
    /\ IF ~Check(op[c].id)
       THEN Return(c, "BadParameter")
       ELSE IF ~Exists(store, inactiveKey(op[c].id))
       THEN Return(c, "nil")
       ELSE Goto(c, "ActivateWrite", store[inactiveKey(op[c].id)])

\* CA.ActivateCertAuthority, its read of the Inactive slot.
ActivateCertAuthorityRead(c) ==
    /\ pc[c] = "ActivateRead"
    /\ UNCHANGED <<store, rev>>
    /\ IF ~Check(op[c].id)
       THEN Return(c, "BadParameter")
       ELSE IF ~Exists(store, inactiveKey(op[c].id))
       THEN Return(c, "NotInactive")
       ELSE Goto(c, "ActivateWrite", store[inactiveKey(op[c].id)])

\* Mutant of ActivateCondActs: the delete of the Inactive slot is left out.
ActivateCondActsCopy(id, read) ==
    <<CondAct(activeKey(id), Whatever, Put(read.Value))>>

\* Mutant of ActivateCondActs: the delete of the Inactive slot is not fenced by the
\* revision read.
ActivateCondActsUnfenced(id, read) ==
    <<CondAct(inactiveKey(id), Whatever, Delete),
      CondAct(activeKey(id), Whatever, Put(read.Value))>>

\* The batch of ActivateCertAuthority: delete the Inactive slot if it is still at the
\* revision read, put the item read into the Active slot.
ActivateCondActs(id, read) ==
    <<CondAct(inactiveKey(id), Revision(read.Revision), Delete),
      CondAct(activeKey(id), Whatever, Put(read.Value))>>

\* CA.ActivateCertAuthority, its atomic batch.
ActivateCertAuthorityWrite(c) ==
    /\ pc[c] = "ActivateWrite"
    /\ IF AtomicWriteOk(store, ActivateCondActs(op[c].id, item[c]))
       THEN /\ store' = AtomicWriteApply(store, rev + 1, ActivateCondActs(op[c].id, item[c]))
            /\ rev' = rev + 1
            /\ Return(c, "nil")
       ELSE UNCHANGED <<store, rev>> /\ Return(c, "ConcurrentModification")

CallDeactivate(c) ==
    \E id \in AllIds : Call(c, [name |-> "Deactivate", id |-> id], "DeactivateRead")

\* CA.DeactivateCertAuthority, its read of the Active slot.
DeactivateCertAuthorityRead(c) ==
    /\ pc[c] = "DeactivateRead"
    /\ UNCHANGED <<store, rev>>
    /\ IF ~Check(op[c].id)
       THEN Return(c, "BadParameter")
       ELSE IF ~Exists(store, activeKey(op[c].id))
       THEN Return(c, "NotActive")
       ELSE Goto(c, "DeactivateWrite", store[activeKey(op[c].id)])

\* Mutant of DeactivateCondActs: the delete of the Active slot is not fenced by the
\* revision read.
DeactivateCondActsUnfenced(id, read) ==
    <<CondAct(activeKey(id), Whatever, Delete),
      CondAct(inactiveKey(id), Whatever, Put(read.Value))>>

\* The batch of DeactivateCertAuthority: delete the Active slot if it is still at the
\* revision read, put the item read into the Inactive slot.
DeactivateCondActs(id, read) ==
    <<CondAct(activeKey(id), Revision(read.Revision), Delete),
      CondAct(inactiveKey(id), Whatever, Put(read.Value))>>

\* Mutant of DeactivateCertAuthorityWrite: the two writes are issued one by one, so
\* the Put of the Inactive slot lands although the fenced Delete is refused.
DeactivateCertAuthorityWritePiecewise(c) ==
    /\ pc[c] = "DeactivateWrite"
    /\ IF AtomicWriteOk(store, DeactivateCondActs(op[c].id, item[c]))
       THEN /\ store' = AtomicWriteApply(store, rev + 1, DeactivateCondActs(op[c].id, item[c]))
            /\ rev' = rev + 1
            /\ Return(c, "nil")
       ELSE /\ store' = BackendPut(store, rev + 1, inactiveKey(op[c].id), item[c].Value)
            /\ rev' = rev + 1
            /\ Return(c, "ConcurrentModification")

\* Mutant of DeactivateCertAuthorityWrite: a failed condition sends the operation
\* back to its read.
DeactivateCertAuthorityWriteRetry(c) ==
    /\ pc[c] = "DeactivateWrite"
    /\ IF AtomicWriteOk(store, DeactivateCondActs(op[c].id, item[c]))
       THEN /\ store' = AtomicWriteApply(store, rev + 1, DeactivateCondActs(op[c].id, item[c]))
            /\ rev' = rev + 1
            /\ Return(c, "nil")
       ELSE UNCHANGED <<store, rev>> /\ Goto(c, "DeactivateRead", NoItem)

\* CA.DeactivateCertAuthority, its atomic batch.
DeactivateCertAuthorityWrite(c) ==
    /\ pc[c] = "DeactivateWrite"
    /\ IF AtomicWriteOk(store, DeactivateCondActs(op[c].id, item[c]))
       THEN /\ store' = AtomicWriteApply(store, rev + 1, DeactivateCondActs(op[c].id, item[c]))
            /\ rev' = rev + 1
            /\ Return(c, "nil")
       ELSE UNCHANGED <<store, rev>> /\ Return(c, "ConcurrentModification")

\* -------------------------------------------------------- role-map update

\* Mutant of RoleMapKey: the Active slot is selected whatever the flag.
RoleMapKeyActiveOnly(name, activated) ==
    activeKey([Type |-> UserCA, DomainName |-> name])

\* The slot UpdateUserCARoleMap selects.
RoleMapKey(name, activated) ==
    LET id == [Type |-> UserCA, DomainName |-> name]
    IN IF activated THEN activeKey(id) ELSE inactiveKey(id)

CallUpdateUserCARoleMap(c) ==
    \E name \in ClusterNames \cup {""}, rm \in RoleMaps, activated \in BOOLEAN :
        /\ (name = "" => rm = "rm1" /\ activated)
        /\ Call(c, [name |-> "UpdateUserCARoleMap", cluster |-> name, roleMap |-> rm,
                    activated |-> activated], "RoleMapRead")

\* Mutant of UpdateUserCARoleMapRead: an absent slot is not reported; the operation
\* goes on to its swap.
UpdateUserCARoleMapReadLenient(c) ==
    /\ pc[c] = "RoleMapRead"
    /\ UNCHANGED <<store, rev>>
    /\ LET key == RoleMapKey(op[c].cluster, op[c].activated)
       IN IF ~Exists(store, key)
          THEN Goto(c, "RoleMapSwap", NoItem)
          ELSE IF UnmarshalError(store[key].Value)
          THEN Return(c, "BadParameter")
          ELSE Goto(c, "RoleMapSwap", store[key])

\* CA.UpdateUserCARoleMap, its read of the selected slot.
UpdateUserCARoleMapRead(c) ==
    /\ pc[c] = "RoleMapRead"
    /\ UNCHANGED <<store, rev>>
    /\ LET key == RoleMapKey(op[c].cluster, op[c].activated)
       IN IF ~Exists(store, key)
          THEN Return(c, "NotFound")
          ELSE IF UnmarshalError(store[key].Value)
          THEN Return(c, "BadParameter")
          ELSE Goto(c, "RoleMapSwap", store[key])

\* Mutant of UpdateUserCARoleMapSwap: a plain Put stands where the backend
\* compare-and-swap should be.
UpdateUserCARoleMapSwapPut(c) ==
    /\ pc[c] = "RoleMapSwap"
    /\ LET key == RoleMapKey(op[c].cluster, op[c].activated)
           actual == [UnmarshalCertAuthority(item[c].Value, 0) EXCEPT !.RoleMap = op[c].roleMap]
       IN /\ store' = BackendPut(store, rev + 1, key, MarshalCertAuthority(actual))
          /\ rev' = rev + 1
          /\ Return(c, "nil")

\* CA.UpdateUserCARoleMap, its compare-and-swap of the record with the new role map.
UpdateUserCARoleMapSwap(c) ==
    /\ pc[c] = "RoleMapSwap"
    /\ LET key == RoleMapKey(op[c].cluster, op[c].activated)
           actual == [UnmarshalCertAuthority(item[c].Value, 0) EXCEPT !.RoleMap = op[c].roleMap]
       IN IF CompareAndSwapOk(store, key, item[c])
          THEN /\ store' = BackendPut(store, rev + 1, key, MarshalCertAuthority(actual))
               /\ rev' = rev + 1
               /\ Return(c, "nil")
          ELSE UNCHANGED <<store, rev>> /\ Return(c, "SwapFailed")

\* ---------------------------------------------------------- backend failure

\* Mutant of AtBackendCall: the backend is called before the argument is checked.
AtBackendCallBeforeCheck(c) ==
    pc[c] \in {"Create", "UpsertRead", "Update", "CompareAndSwapRead", "Delete", "ActivateRead",
               "DeactivateRead", "Get", "GetCertAuthorities", "UpsertPut", "CompareAndSwapSwap",
               "DeleteAll", "ActivateWrite", "DeactivateWrite", "RoleMapRead", "RoleMapSwap"}

\* The caller is about to make the backend call of its step: what the operation
\* checks before the call has passed.
AtBackendCall(c) ==
    CASE pc[c] = "Create" -> \A i \in 1 .. Len(op[c].cas) : ValidateCertAuthority(op[c].cas[i])
      [] pc[c] \in {"UpsertRead", "Update"} -> ValidateCertAuthority(op[c].ca)
      [] pc[c] = "CompareAndSwapRead" -> ValidateCertAuthority(op[c].new)
      [] pc[c] = "Delete" -> \A i \in 1 .. Len(op[c].ids) : Check(op[c].ids[i])
      [] pc[c] \in {"ActivateRead", "DeactivateRead", "Get"} -> Check(op[c].id)
      [] pc[c] = "GetCertAuthorities" -> op[c].caType \in CertAuthTypes
      [] pc[c] \in {"UpsertPut", "CompareAndSwapSwap", "DeleteAll", "ActivateWrite",
                    "DeactivateWrite", "RoleMapRead", "RoleMapSwap"} -> TRUE
      [] OTHER -> FALSE

\* Mutant of BackendFails: the failure of a compare-and-swap is not reported.
BackendFailsSwapIgnored(c) ==
    /\ AtBackendCall(c)
    /\ UNCHANGED <<store, rev>>
    /\ IF pc[c] = "UpsertRead"
       THEN Goto(c, "UpsertPut", NoItem)
       ELSE IF pc[c] = "Update"
       THEN ReturnWith(c, "Unavailable", NoCA, op[c].ca)
       ELSE IF pc[c] \in {"CompareAndSwapSwap", "RoleMapSwap"}
       THEN Return(c, "nil")
       ELSE Return(c, "Unavailable")

\* The backend call of the caller's step fails for a reason of its own
\* (Unavailable/IO) and writes nothing.  Every operation returns the error wrapped,
\* but for the read of UpsertCertAuthority, whose error is dropped: the operation
\* goes on to its Put.
BackendFails(c) ==
    /\ AtBackendCall(c)
    /\ UNCHANGED <<store, rev>>
    /\ IF pc[c] = "UpsertRead"
       THEN Goto(c, "UpsertPut", NoItem)
       ELSE IF pc[c] = "Update"
       THEN ReturnWith(c, "Unavailable", NoCA, op[c].ca)
       ELSE Return(c, "Unavailable")

\* --------------------------------------------------------- specification

Init ==
    /\ store = [k \in Keys |-> NoItem]
    /\ rev = 0
    /\ pc = [c \in Callers |-> "idle"]
    /\ op = [c \in Callers |-> NoOp]
    /\ item = [c \in Callers |-> NoItem]
    /\ result = [c \in Callers |-> NoResult]
    /\ touched = [c \in Callers |-> FALSE]
    /\ observations = <<>>

\* The operations that write, their steps interleaved in every order.  The two
\* operations that only read are one backend call each and change nothing another
\* caller holds; they are stepped in NextLookup and NextRange below.
Next ==
    \E c \in Callers :
        \/ CallCreate(c)
        \/ CreateCertAuthorities(c)
        \/ CallUpsert(c)
        \/ UpsertCertAuthorityRead(c)
        \/ UpsertCertAuthorityPut(c)
        \/ CallUpdate(c)
        \/ UpdateCertAuthority(c)
        \/ CallCompareAndSwap(c)
        \/ CompareAndSwapCertAuthorityRead(c)
        \/ CompareAndSwapCertAuthoritySwap(c)
        \/ CallDelete(c)
        \/ DeleteCertAuthorities(c)
        \/ CallDeleteAll(c)
        \/ DeleteAllCertAuthorities(c)
        \/ CallActivate(c)
        \/ ActivateCertAuthorityRead(c)
        \/ ActivateCertAuthorityWrite(c)
        \/ CallDeactivate(c)
        \/ DeactivateCertAuthorityRead(c)
        \/ DeactivateCertAuthorityWrite(c)
        \/ CallUpdateUserCARoleMap(c)
        \/ UpdateUserCARoleMapRead(c)
        \/ UpdateUserCARoleMapSwap(c)
        \/ Finish(c)

Spec == Init /\ [][Next]_vars

\* ------------------------------------------------------------ scenarios

\* A store as successful creates leave it: some valid identities Active, each with
\* some role map, all written by one batch at revision 1.
CreatedStore(S, rm) ==
    [k \in Keys |->
        IF \E id \in S : k = activeKey(id)
        THEN LET id == CHOOSE x \in S : k = activeKey(x)
             IN [Value |-> MarshalCertAuthority(NewCA(id, rm[id], 0)), Revision |-> 1]
        ELSE NoItem]

\* The first observation: the store before any call of the scenario.
FirstObservation(st) == <<[caller |-> "none", call |-> NoOp, err |-> "none", store |-> st]>>

InitCreated ==
    /\ \E S \in SUBSET ValidIds, rm \in [ValidIds -> RoleMaps] :
        /\ store = CreatedStore(S, rm)
        /\ rev = IF S = {} THEN 0 ELSE 1
    /\ pc = [c \in Callers |-> "idle"]
    /\ op = [c \in Callers |-> NoOp]
    /\ item = [c \in Callers |-> NoItem]
    /\ result = [c \in Callers |-> NoResult]
    /\ touched = [c \in Callers |-> FALSE]
    /\ observations = FirstObservation(store)

\* The calls of caller c that have returned.
Returned(c) == {i \in 1 .. Len(observations) : observations[i].caller = c}

\* Two callers, each calling DeactivateCertAuthority once, their steps interleaved
\* in every order.
NextConcurrentDeactivate ==
    \E c \in Callers :
        \/ Returned(c) = {} /\ CallDeactivate(c)
        \/ DeactivateCertAuthorityRead(c)
        \/ DeactivateCertAuthorityWrite(c)

SpecConcurrentDeactivate == InitCreated /\ [][NextConcurrentDeactivate]_vars

\* One call at a time (no call starts while another is in flight), two calls in
\* all, each a DeactivateCertAuthority or an ActivateCertAuthority.
NextRotation ==
    \E c \in Callers :
        \/ InFlight = 0 /\ Len(observations) < 3 /\ CallDeactivate(c)
        \/ InFlight = 0 /\ Len(observations) < 3 /\ CallActivate(c)
        \/ DeactivateCertAuthorityRead(c)
        \/ DeactivateCertAuthorityWrite(c)
        \/ ActivateCertAuthorityRead(c)
        \/ ActivateCertAuthorityWrite(c)
        \/ Finish(c)

SpecRotation == InitCreated /\ [][NextRotation]_vars

\* Two callers, each calling CreateCertAuthorities once, in either order.
NextConcurrentCreate ==
    \E c \in Callers :
        \/ Returned(c) = {} /\ CallCreate(c)
        \/ CreateCertAuthorities(c)

SpecConcurrentCreate == InitCreated /\ [][NextConcurrentCreate]_vars

\* Two callers, each calling UpdateCertAuthority once, in either order.
NextConcurrentUpdate ==
    \E c \in Callers :
        \/ Returned(c) = {} /\ CallUpdate(c)
        \/ UpdateCertAuthority(c)

SpecConcurrentUpdate == InitCreated /\ [][NextConcurrentUpdate]_vars

\* No caller is in a call or holds what a call returned.
Quiet == \A c \in Callers : pc[c] = "idle"

\* Every operation, one call at a time, over a backend whose calls may fail.
NextUnavailable ==
    \E c \in Callers :
        \/ Quiet /\ CallCreate(c)
        \/ Quiet /\ CallUpsert(c)
        \/ Quiet /\ CallUpdate(c)
        \/ Quiet /\ CallCompareAndSwap(c)
        \/ Quiet /\ CallDelete(c)
        \/ Quiet /\ CallDeleteAll(c)
        \/ Quiet /\ CallActivate(c)
        \/ Quiet /\ CallDeactivate(c)
        \/ Quiet /\ CallUpdateUserCARoleMap(c)
        \/ Quiet /\ CallGet(c)
        \/ Quiet /\ CallGetCertAuthorities(c)
        \/ CreateCertAuthorities(c)
        \/ UpsertCertAuthorityRead(c)
        \/ UpsertCertAuthorityPut(c)
        \/ UpdateCertAuthority(c)
        \/ CompareAndSwapCertAuthorityRead(c)
        \/ CompareAndSwapCertAuthoritySwap(c)
        \/ DeleteCertAuthorities(c)
        \/ DeleteAllCertAuthorities(c)
        \/ ActivateCertAuthorityRead(c)
        \/ ActivateCertAuthorityWrite(c)
        \/ DeactivateCertAuthorityRead(c)
        \/ DeactivateCertAuthorityWrite(c)
        \/ UpdateUserCARoleMapRead(c)
        \/ UpdateUserCARoleMapSwap(c)
        \/ GetCertAuthorityCall(c)
        \/ GetCertAuthorities(c)
        \/ BackendFails(c)
        \/ Finish(c)

SpecUnavailable == Init /\ [][NextUnavailable]_vars

\* One call at a time, two calls in all, each a CreateCertAuthorities, a
\* DeactivateCertAuthority, a GetCertAuthority or a GetCertAuthorities.
NextLookup ==
    \E c \in Callers :
        \/ InFlight = 0 /\ Len(observations) < 3 /\ CallCreate(c)
        \/ InFlight = 0 /\ Len(observations) < 3 /\ CallDeactivate(c)
        \/ InFlight = 0 /\ Len(observations) < 3 /\ CallGet(c)
        \/ InFlight = 0 /\ Len(observations) < 3 /\ CallGetCertAuthorities(c)
        \/ CreateCertAuthorities(c)
        \/ DeactivateCertAuthorityRead(c)
        \/ DeactivateCertAuthorityWrite(c)
        \/ GetCertAuthorityCall(c)
        \/ GetCertAuthorities(c)
        \/ Finish(c)

SpecLookup == InitCreated /\ [][NextLookup]_vars

\* A record that deserializes and fails validation: its role map is not acceptable.
Malformed(id) == MarshalCertAuthority(NewCA(id, "malformed", 0))

\* A store as this and other services left it: valid records in the Active slots
\* of some identities and, in at most one more, bytes that do not deserialize or a
\* record that does not validate.
RangeStore(V, B, bad) ==
    [k \in Keys |->
        IF \E id \in V : k = activeKey(id)
        THEN LET id == CHOOSE x \in V : k = activeKey(x)
             IN [Value |-> MarshalCertAuthority(NewCA(id, "rm1", 0)), Revision |-> 1]
        ELSE IF \E id \in B : k = activeKey(id)
        THEN LET id == CHOOSE x \in B : k = activeKey(x)
             IN [Value |-> IF bad = "garbage" THEN Garbage ELSE Malformed(id), Revision |-> 1]
        ELSE NoItem]

InitRange ==
    /\ \E V \in SUBSET StoredIds, B \in SUBSET StoredIds, bad \in {"garbage", "malformed"} :
        /\ B \cap V = {} /\ Cardinality(B) <= 1
        /\ B = {} => bad = "garbage"
        /\ store = RangeStore(V, B, bad)
    /\ rev = 1
    /\ pc = [c \in Callers |-> "idle"]
    /\ op = [c \in Callers |-> NoOp]
    /\ item = [c \in Callers |-> NoItem]
    /\ result = [c \in Callers |-> NoResult]
    /\ touched = [c \in Callers |-> FALSE]
    /\ observations = FirstObservation(store)

\* One call in all, a GetCertAuthorities or a DeleteAllCertAuthorities.
NextRange ==
    \E c \in Callers :
        \/ InFlight = 0 /\ Len(observations) < 2 /\ CallGetCertAuthorities(c)
        \/ InFlight = 0 /\ Len(observations) < 2 /\ CallDeleteAll(c)
        \/ GetCertAuthorities(c)
        \/ DeleteAllCertAuthorities(c)
        \/ Finish(c)

SpecRange == InitRange /\ [][NextRange]_vars

\* The store after creates and deactivations: every identity of A is in its Active
\* slot and every identity of D in its Inactive slot.  Revisions are compared for
\* equality only, so the records are numbered from 1.
RotatedStore(A, D, rm) ==
    [k \in Keys |->
        IF \E id \in A : k = activeKey(id)
        THEN LET id == CHOOSE x \in A : k = activeKey(x)
             IN [Value |-> MarshalCertAuthority(NewCA(id, rm[id], 0)), Revision |-> 1]
        ELSE IF \E id \in D : k = inactiveKey(id)
        THEN LET id == CHOOSE x \in D : k = inactiveKey(x)
             IN [Value |-> MarshalCertAuthority(NewCA(id, rm[id], 0)), Revision |-> 1]
        ELSE NoItem]

InitRotated ==
    /\ \E A \in SUBSET ValidIds, rm \in [ValidIds -> RoleMaps] :
        \E D \in SUBSET (ValidIds \ A) :
            /\ store = RotatedStore(A, D, rm)
            /\ rev = IF A \cup D = {} THEN 0 ELSE 1
    /\ pc = [c \in Callers |-> "idle"]
    /\ op = [c \in Callers |-> NoOp]
    /\ item = [c \in Callers |-> NoItem]
    /\ result = [c \in Callers |-> NoResult]
    /\ touched = [c \in Callers |-> FALSE]
    /\ observations = FirstObservation(store)

\* Upserts and rotations, one call at a time, two calls in all.
NextSlots ==
    \E c \in Callers :
        \/ InFlight = 0 /\ Len(observations) < 3 /\ CallUpsert(c)
        \/ InFlight = 0 /\ Len(observations) < 3 /\ CallActivate(c)
        \/ InFlight = 0 /\ Len(observations) < 3 /\ CallDeactivate(c)
        \/ UpsertCertAuthorityRead(c)
        \/ UpsertCertAuthorityPut(c)
        \/ ActivateCertAuthorityRead(c)
        \/ ActivateCertAuthorityWrite(c)
        \/ DeactivateCertAuthorityRead(c)
        \/ DeactivateCertAuthorityWrite(c)
        \/ Finish(c)

SpecSlots == InitRotated /\ [][NextSlots]_vars

\* A rotation and a delete by two callers, each making one call, interleaved.
NextDeleteDuringRotation ==
    \E c \in Callers :
        \/ Returned(c) = {} /\ CallActivate(c)
        \/ Returned(c) = {} /\ CallDeactivate(c)
        \/ Returned(c) = {} /\ CallDelete(c)
        \/ ActivateCertAuthorityRead(c)
        \/ ActivateCertAuthorityWrite(c)
        \/ DeactivateCertAuthorityRead(c)
        \/ DeactivateCertAuthorityWrite(c)
        \/ DeleteCertAuthorities(c)

\* The stores creates, deactivations and upserts leave: every identity of A has a
\* record in its Active slot, every identity of D one in its Inactive slot, each
\* with a role map of its own; an identity may be in both (an upsert after a
\* deactivation).  Revisions are compared for equality only: the Inactive records
\* carry the earlier one, the Active records the later.
SlotsStore(A, D, rmA, rmD) ==
    [k \in Keys |->
        IF \E id \in A : k = activeKey(id)
        THEN LET id == CHOOSE x \in A : k = activeKey(x)
             IN [Value |-> MarshalCertAuthority(NewCA(id, rmA[id], 0)), Revision |-> 2]
        ELSE IF \E id \in D : k = inactiveKey(id)
        THEN LET id == CHOOSE x \in D : k = inactiveKey(x)
             IN [Value |-> MarshalCertAuthority(NewCA(id, rmD[id], 0)), Revision |-> 1]
        ELSE NoItem]

InitSlots ==
    /\ \E A \in SUBSET ValidIds, D \in SUBSET ValidIds,
          rmA \in [ValidIds -> RoleMaps], rmD \in [ValidIds -> RoleMaps] :
            store = SlotsStore(A, D, rmA, rmD)
    /\ rev = 2
    /\ pc = [c \in Callers |-> "idle"]
    /\ op = [c \in Callers |-> NoOp]
    /\ item = [c \in Callers |-> NoItem]
    /\ result = [c \in Callers |-> NoResult]
    /\ touched = [c \in Callers |-> FALSE]
    /\ observations = FirstObservation(store)

\* One GetCertAuthorities or DeleteAllCertAuthorities over such a store.
SpecSlotsRange == InitSlots /\ [][NextRange]_vars

\* A caller that retries: its update was refused with a compare failure, so it
\* reads the record again and submits the record it read, with the role map it
\* wants, under the revision it read.  The other caller upserts meanwhile,
\* MaxWrites calls at most.
Retrier == "c1"
Writer == "c2"
Wanted == "rm2"
MaxWrites == 1

\* The caller goes from what one call returned straight to its next call.
Again(c, o, first) ==
    /\ pc[c] = "returned"
    /\ op' = [op EXCEPT ![c] = o]
    /\ pc' = [pc EXCEPT ![c] = first]
    /\ result' = [result EXCEPT ![c] = NoResult]
    /\ UNCHANGED <<store, rev, item, observations>>
    /\ Touch

Reread(c) ==
    /\ result[c].name = "Update" /\ Kind(result[c].err) = "CompareFailed"
    /\ Again(c, [name |-> "Get", id |-> GetID(result[c].arg), loadSigningKeys |-> TRUE], "Get")

Resubmit(c) ==
    /\ result[c].name = "Get" /\ result[c].err = "nil"
    /\ Again(c, [name |-> "Update", ca |-> [result[c].ca EXCEPT !.RoleMap = Wanted]], "Update")

RetrierStep ==
    \/ UpdateCertAuthority(Retrier)
    \/ Reread(Retrier)
    \/ GetCertAuthorityCall(Retrier)
    \/ Resubmit(Retrier)

NextRetry ==
    \/ Returned(Retrier) = {} /\ CallUpdate(Retrier)
    \/ RetrierStep
    \/ Cardinality(Returned(Writer)) < MaxWrites /\ CallUpsert(Writer)
    \/ UpsertCertAuthorityRead(Writer)
    \/ UpsertCertAuthorityPut(Writer)
    \/ Finish(Writer)

\* The retrying caller keeps going: each of its calls is synchronous and it
\* starts the next as soon as one returns.
SpecRetry == InitCreated /\ [][NextRetry]_vars /\ WF_vars(RetrierStep)

\* A caller that read the record before a rotation submits its update after it:
\* a deactivation, an activation and an update carrying any revision assigned so
\* far, one call at a time.  The update is the last call, so it is made whatever
\* the revision counter has reached.
CallUpdateHeld(c) ==
    \E ca \in InputCAs, r \in 0 .. rev :
        /\ (GetID(ca) = BadId => r = 0)
        /\ Begin(c, [name |-> "Update", ca |-> [ca EXCEPT !.Revision = r]], "Update")

NextFencing ==
    \E c \in Callers :
        \/ InFlight = 0 /\ Len(observations) = 1 /\ CallDeactivate(c)
        \/ InFlight = 0 /\ Len(observations) = 2 /\ CallActivate(c)
        \/ InFlight = 0 /\ Len(observations) = 3 /\ CallUpdateHeld(c)
        \/ DeactivateCertAuthorityRead(c)
        \/ DeactivateCertAuthorityWrite(c)
        \/ ActivateCertAuthorityRead(c)
        \/ ActivateCertAuthorityWrite(c)
        \/ UpdateCertAuthority(c)
        \/ Finish(c)

SpecFencing == InitCreated /\ [][NextFencing]_vars

SpecDeleteDuringRotation == InitRotated /\ [][NextDeleteDuringRotation]_vars

\* ------------------------------------------------------------------ claims

Active(id) == Exists(store, activeKey(id))
Inactive(id) == Exists(store, inactiveKey(id))

\* C1: no identity has a record in its Active slot and in its Inactive slot at the
\* same time, in any state the operations can reach.
C1_SlotInvariant == \A id \in AllIds : ~(Active(id) /\ Inactive(id))

\* The identities of a batch of records.
BatchIds(cas) == {GetID(cas[i]) : i \in 1 .. Len(cas)}

\* C2: a CreateCertAuthorities call on a batch of valid records of which at least
\* one has its Active key in the store returns AlreadyExists and leaves the whole
\* store as it was; a member that was absent before is still NotFound afterwards.
C2_AllOrNothingCreate ==
    [][\A c \in Callers :
        (/\ pc[c] = "Create" /\ pc'[c] = "returned"
         /\ \A i \in 1 .. Len(op[c].cas) : ValidateCertAuthority(op[c].cas[i])
         /\ \E id \in BatchIds(op[c].cas) : Active(id))
        => /\ result'[c].err = "AlreadyExists"
           /\ store' = store
           /\ \A id \in BatchIds(op[c].cas) :
                ~Active(id) => GetCertAuthority(store', id, TRUE).err = "NotFound"]_vars

\* C2 witness: a create has returned AlreadyExists while an identity it could have
\* created along with the existing one is still absent from both slots.
C2_Witness ==
    \E c \in Callers, a, b \in ValidIds :
        /\ pc[c] = "returned" /\ result[c].name = "Create" /\ result[c].err = "AlreadyExists"
        /\ a # b /\ Active(a) /\ ~Active(b) /\ ~Inactive(b)

\* The slots an identity occupies in a store.
ActiveIn(st, id) == Exists(st, activeKey(id))
InactiveIn(st, id) == Exists(st, inactiveKey(id))

\* Both callers have returned from a DeactivateCertAuthority of the same valid
\* identity, which was Active (and not Inactive) before the two calls.
BothDeactivated(id) ==
    /\ Len(observations) = 3
    /\ observations[2].call = [name |-> "Deactivate", id |-> id]
    /\ observations[3].call = [name |-> "Deactivate", id |-> id]
    /\ observations[2].caller # observations[3].caller
    /\ ActiveIn(observations[1].store, id) /\ ~InactiveIn(observations[1].store, id)

\* The record is in the Inactive slot only, with the bytes it had in the Active slot.
MovedToInactive(id) ==
    /\ ~Active(id) /\ Inactive(id)
    /\ store[inactiveKey(id)].Value = observations[1].store[activeKey(id)].Value

InOneSlot(st, id) == ActiveIn(st, id) # InactiveIn(st, id)

\* C4: from an identity Active with value v, DeactivateCertAuthority followed by
\* ActivateCertAuthority (no other writer) both succeed and leave the Active slot
\* holding a record equivalent to v; before, between and after the two calls the
\* record is in exactly one slot.
C4_RotationLossless ==
    \A id \in ValidIds :
        (/\ Len(observations) >= 2
         /\ ActiveIn(observations[1].store, id) /\ ~InactiveIn(observations[1].store, id)
         /\ observations[2].call = [name |-> "Deactivate", id |-> id])
        => /\ InOneSlot(observations[1].store, id)
           /\ observations[2].err = "nil"
           /\ InOneSlot(observations[2].store, id) /\ InactiveIn(observations[2].store, id)
           /\ (Len(observations) = 3 /\ observations[3].call = [name |-> "Activate", id |-> id])
              => /\ observations[3].err = "nil"
                 /\ InOneSlot(observations[3].store, id) /\ ActiveIn(observations[3].store, id)
                 /\ CertAuthoritiesEquivalent(
                        UnmarshalCertAuthority(observations[3].store[activeKey(id)].Value,
                                               observations[3].store[activeKey(id)].Revision),
                        UnmarshalCertAuthority(observations[1].store[activeKey(id)].Value,
                                               observations[1].store[activeKey(id)].Revision))

\* C4 witness: a deactivation and then an activation of an identity that was Active
\* have both returned, and the record is back under a new revision.
C4_Witness ==
    \E id \in ValidIds :
        /\ Len(observations) = 3
        /\ ActiveIn(observations[1].store, id)
        /\ observations[2].call = [name |-> "Deactivate", id |-> id]
        /\ observations[3].call = [name |-> "Activate", id |-> id]
        /\ observations[3].err = "nil"
        /\ store[activeKey(id)].Revision # observations[1].store[activeKey(id)].Revision

\* C5: when the Active record was modified or removed by another caller after
\* DeactivateCertAuthority read it, its batch is rejected as a whole: the call
\* returns the concurrent-modification error and both slots stay as they were left.
C5_AbortedRotationChangesNothing ==
    [][\A c \in Callers :
        (pc[c] = "DeactivateWrite" /\ pc'[c] # pc[c] /\ touched[c])
        => /\ pc'[c] = "returned"
           /\ result'[c].err = "ConcurrentModification"
           /\ store' = store]_vars

\* C5 witness: a deactivation has returned the concurrent-modification error.
C5_Witness ==
    \E c \in Callers :
        /\ pc[c] = "returned" /\ result[c].name = "Deactivate"
        /\ result[c].err = "ConcurrentModification"

\* C6 as stated: DeactivateCertAuthority of a valid identity whose Active slot is
\* absent returns an error of kind NotFound and writes nothing.
C6_DeactivateAbsentNotFound ==
    [][\A c \in Callers :
        (/\ pc[c] = "DeactivateRead" /\ pc'[c] # pc[c]
         /\ Check(op[c].id) /\ ~Active(op[c].id))
        => /\ pc'[c] = "returned"
           /\ Kind(result'[c].err) = "NotFound"
           /\ store' = store]_vars

\* The stored record CompareAndSwapCertAuthority compares with the expected one.
StoredRecord(key) == UnmarshalCertAuthority(store[key].Value, 0)

\* C7: CompareAndSwapCertAuthority of a valid record returns Conflict
\* (CompareFailed) from its pre-check, without reaching its write, whenever the
\* record it reads in the Active slot is not equivalent to the expected one.
C7_PreCheckConflict ==
    [][\A c \in Callers :
        (/\ pc[c] = "CompareAndSwapRead" /\ pc'[c] # pc[c]
         /\ ValidateCertAuthority(op[c].new)
         /\ Exists(store, CompareAndSwapKey(op[c].new))
         /\ ~CertAuthoritiesEquivalent(StoredRecord(CompareAndSwapKey(op[c].new)),
                                       op[c].expected))
        => /\ pc'[c] = "returned"
           /\ Kind(result'[c].err) = "CompareFailed"
           /\ store' = store /\ rev' = rev]_vars

\* C7 witness: a compare-and-swap has returned Conflict from its pre-check.
C7_Witness ==
    \E c \in Callers :
        /\ pc[c] = "returned" /\ result[c].name = "CompareAndSwap"
        /\ result[c].err = "PreCheckFailed"

\* C8: when another caller wrote the Active slot after CompareAndSwapCertAuthority
\* read it, the backend compare-and-swap fails: the call returns Conflict
\* (CompareFailed) and the other caller's write stays in the store.
C8_RacingWriterCaught ==
    [][\A c \in Callers :
        (pc[c] = "CompareAndSwapSwap" /\ pc'[c] # pc[c] /\ touched[c])
        => /\ pc'[c] = "returned"
           /\ Kind(result'[c].err) = "CompareFailed"
           /\ store' = store]_vars

\* C8 witness: a compare-and-swap that passed its pre-check has returned Conflict
\* from the backend swap.
C8_Witness ==
    \E c \in Callers :
        /\ pc[c] = "returned" /\ result[c].name = "CompareAndSwap"
        /\ result[c].err = "SwapFailed"

\* C9: UpdateCertAuthority of a valid record whose revision is not the one stored
\* in the Active slot returns Conflict (CompareFailed) in its one step (no second
\* attempt) and leaves the store, the Active slot with it, as it was.
C9_UpdateRevisionMismatch ==
    [][\A c \in Callers :
        (/\ pc[c] = "Update" /\ pc'[c] # pc[c]
         /\ ValidateCertAuthority(op[c].ca)
         /\ store[activeKey(GetID(op[c].ca))].Revision # op[c].ca.Revision)
        => /\ pc'[c] = "returned"
           /\ Kind(result'[c].err) = "CompareFailed"
           /\ store' = store /\ rev' = rev]_vars

\* C9 witness: an update has returned Conflict while the Active slot of its
\* identity holds a record at another revision than the one supplied.
C9_Witness ==
    \E c \in Callers :
        /\ pc[c] = "returned" /\ result[c].name = "Update"
        /\ result[c].err = "IncorrectRevision"
        /\ Active(GetID(result[c].arg))
        /\ store[activeKey(GetID(result[c].arg))].Revision # result[c].arg.Revision

\* C10: a successful UpdateCertAuthority returns the supplied record with its
\* revision set to the one the backend stored for the Active slot by this write,
\* which is not the one supplied; the caller's own record is as it was passed.
C10_UpdateReturnsNewRevision ==
    [][\A c \in Callers :
        (pc[c] = "Update" /\ pc'[c] = "returned" /\ result'[c].err = "nil")
        => /\ result'[c].ca.Revision = store'[activeKey(GetID(op[c].ca))].Revision
           /\ store'[activeKey(GetID(op[c].ca))] # store[activeKey(GetID(op[c].ca))]
           /\ result'[c].ca.Revision # op[c].ca.Revision
           /\ CertAuthoritiesEquivalent(result'[c].ca, op[c].ca)
           /\ result'[c].arg = op[c].ca]_vars

\* C10 witness: an update has returned a record carrying the revision now stored.
C10_Witness ==
    \E c \in Callers :
        /\ pc[c] = "returned" /\ result[c].name = "Update" /\ result[c].err = "nil"
        /\ result[c].ca.Revision = store[activeKey(GetID(result[c].ca))].Revision
        /\ result[c].arg.Revision # result[c].ca.Revision

\* C11: UpsertCertAuthority of a valid record returns at once, the store as it was,
\* when it reads in the Active slot a record equivalent to the one supplied;
\* otherwise it goes on to one Put, after which the Active slot holds the supplied
\* record under a fresh revision and every other key is as it was.
C11_UpsertNoOpOrOneWrite ==
    [][\A c \in Callers :
        /\ (/\ pc[c] = "UpsertRead" /\ pc'[c] # pc[c]
            /\ ValidateCertAuthority(op[c].ca))
           => IF /\ Active(GetID(op[c].ca))
                 /\ store[activeKey(GetID(op[c].ca))].Value = MarshalCertAuthority(op[c].ca)
              THEN /\ pc'[c] = "returned" /\ result'[c].err = "nil"
                   /\ store' = store /\ rev' = rev
              ELSE pc'[c] = "UpsertPut" /\ store' = store /\ rev' = rev
        /\ (pc[c] = "UpsertPut" /\ pc'[c] # pc[c])
           => /\ pc'[c] = "returned" /\ result'[c].err = "nil"
              /\ store'[activeKey(GetID(op[c].ca))] =
                    [Value |-> MarshalCertAuthority(op[c].ca), Revision |-> rev']
              /\ rev' = rev + 1
              /\ \A k \in Keys \ {activeKey(GetID(op[c].ca))} : store'[k] = store[k]]_vars

\* C11 witness: an upsert has returned without error and without taking a
\* revision: the one revision issued went to the create of the other caller.
C11_Witness ==
    \E c, d \in Callers :
        /\ c # d /\ rev = 1
        /\ pc[c] = "returned" /\ result[c].name = "Upsert" /\ result[c].err = "nil"
        /\ pc[d] = "returned" /\ result[d].name = "Create" /\ result[d].err = "nil"

\* The last two calls were a successful create and then a GetCertAuthority, with
\* the secrets, of the identity of record i of the created batch, and the caller
\* still holds what the lookup returned.
CreatedThenLookedUp(i) ==
    LET n == Len(observations) IN
    /\ n >= 3
    /\ observations[n - 1].call.name = "Create" /\ observations[n - 1].err = "nil"
    /\ observations[n].call.name = "Get" /\ observations[n].call.loadSigningKeys
    /\ i \in 1 .. Len(observations[n - 1].call.cas)
    /\ GetID(observations[n - 1].call.cas[i]) = observations[n].call.id
    /\ pc[observations[n].caller] = "returned"

\* What the caller of the last call holds.
LastResult == result[observations[Len(observations)].caller]

\* The record i of the batch of the last call but one.
CreatedRecord(i) == observations[Len(observations) - 1].call.cas[i]

\* C12: a GetCertAuthority with loadSigningKeys that follows a successful create of
\* the identity, no call in between, returns without error a record equivalent to
\* the created one.
C12_CreateGetRoundTrip ==
    \A i \in 1 .. 2 :
        CreatedThenLookedUp(i)
        => /\ LastResult.err = "nil"
           /\ CertAuthoritiesEquivalent(LastResult.ca, CreatedRecord(i))

\* C12 witness: a lookup that follows the create of its identity has returned the
\* record with its secrets and with the revision the create stored.
C12_Witness ==
    \E i \in 1 .. 2 :
        /\ CreatedThenLookedUp(i)
        /\ LastResult.err = "nil" /\ LastResult.ca.SigningKeys = Secrets
        /\ LastResult.ca.Revision = rev

\* The identities of a type whose Active slot holds an item that deserializes and
\* validates.
ValidOfType(st, caType) ==
    {id \in StoredIds \cup ValidIds :
        /\ id.Type = caType /\ Exists(st, activeKey(id))
        /\ ~UnmarshalError(st[activeKey(id)].Value)
        /\ ValidateCertAuthority(UnmarshalCertAuthority(st[activeKey(id)].Value, 0))}

\* C13 as stated: the list GetCertAuthorities returns for a type has one entry for
\* each item of the type that deserializes and validates, each a valid record, and
\* no empty entry for an item that does not.
C13_ListSkipsMalformed ==
    [][\A c \in Callers :
        (/\ pc[c] = "GetCertAuthorities" /\ pc'[c] = "returned"
         /\ op[c].caType \in CertAuthTypes)
        => /\ result'[c].err = "nil"
           /\ Len(result'[c].cas) = Cardinality(ValidOfType(store, op[c].caType))
           /\ \A i \in 1 .. Len(result'[c].cas) :
                /\ result'[c].cas[i] # NoCA
                /\ ValidateCertAuthority(result'[c].cas[i])]_vars

\* C14: DeleteAllCertAuthorities of a type leaves no Active record of that type
\* and leaves every other key as it was, the Active records of a type whose name
\* begins with the name of the deleted type among them.
C14_DeleteAllOneType ==
    [][\A c \in Callers :
        (pc[c] = "DeleteAll" /\ pc'[c] = "returned")
        => /\ result'[c].err = "nil"
           /\ \A id \in StoredIds \cup ValidIds :
                IF id.Type = op[c].caType
                THEN ~Exists(store', activeKey(id))
                ELSE store'[activeKey(id)] = store[activeKey(id)]
           /\ \A id \in AllIds : store'[inactiveKey(id)] = store[inactiveKey(id)]]_vars

\* C14 witness: DeleteAllCertAuthorities("db") has returned; the records of type
\* "db" that were Active are gone and the record of type "db_client" is still there.
C14_Witness ==
    /\ Len(observations) = 2
    /\ observations[2].call.name = "DeleteAll" /\ observations[2].call.caType = DatabaseCA
    /\ \A name \in StoredNames :
        /\ Exists(observations[1].store, activeKey([Type |-> DatabaseCA, DomainName |-> name]))
        /\ ~Exists(store, activeKey([Type |-> DatabaseCA, DomainName |-> name]))
    /\ Exists(observations[1].store, activeKey([Type |-> DatabaseClientCA, DomainName |-> "one"]))
    /\ Exists(store, activeKey([Type |-> DatabaseClientCA, DomainName |-> "one"]))

\* The identities of a list.
ListedIds(ids) == {ids[i] : i \in 1 .. Len(ids)}

\* C15: DeleteCertAuthorities of valid identities returns no error whatever slots
\* they occupy, and leaves both slots of each of them absent and every other key as
\* it was; when their slots are absent already (as after a first call) it returns
\* no error and changes nothing.
C15_DeleteIdempotent ==
    [][\A c \in Callers :
        (/\ pc[c] = "Delete" /\ pc'[c] # pc[c]
         /\ \A id \in ListedIds(op[c].ids) : Check(id))
        => /\ pc'[c] = "returned" /\ result'[c].err = "nil"
           /\ \A id \in ListedIds(op[c].ids) :
                ~Exists(store', activeKey(id)) /\ ~Exists(store', inactiveKey(id))
           /\ \A k \in Keys :
                (\A id \in ListedIds(op[c].ids) : k # activeKey(id) /\ k # inactiveKey(id))
                => store'[k] = store[k]
           /\ (\A id \in ListedIds(op[c].ids) : ~Active(id) /\ ~Inactive(id))
                => store' = store]_vars

\* C15 witness: a delete has returned without error and the store is empty, after
\* a create and a deactivation (the two revisions issued) had left a record in an
\* Inactive slot.
C15_Witness ==
    \E c, d \in Callers :
        /\ c # d /\ rev = 2
        /\ pc[c] = "returned" /\ result[c].name = "Delete" /\ result[c].err = "nil"
        /\ pc[d] = "returned" /\ result[d].name = "Deactivate" /\ result[d].err = "nil"
        /\ \A k \in Keys : ~Exists(store, k)

\* C16: a CreateCertAuthorities call on a batch with a record that fails validation
\* returns an error and writes nothing: no record of the batch is created, the
\* valid ones listed before the invalid one included, and no Inactive slot is
\* deleted.
C16_CreateFailsClosed ==
    [][\A c \in Callers :
        (/\ pc[c] = "Create" /\ pc'[c] # pc[c]
         /\ \E i \in 1 .. Len(op[c].cas) : ~ValidateCertAuthority(op[c].cas[i]))
        => /\ pc'[c] = "returned" /\ result'[c].err \notin {"nil", "none"}
           /\ store' = store /\ rev' = rev]_vars

\* C16 witness: a create has returned the validation error while a record sits in
\* an Inactive slot that a create of its identity would have deleted.
C16_Witness ==
    \E c \in Callers, id \in ValidIds :
        /\ pc[c] = "returned" /\ result[c].name = "Create"
        /\ result[c].err = "BadParameter"
        /\ Inactive(id) /\ ~Active(id)

\* Both callers have returned from a create of valid records; the two batches
\* share an identity, and no identity of either batch was Active at the start.
BothCreated ==
    /\ Len(observations) = 3
    /\ \A n \in 2 .. 3 :
        /\ observations[n].call.name = "Create"
        /\ \A i \in 1 .. Len(observations[n].call.cas) :
            /\ ValidateCertAuthority(observations[n].call.cas[i])
            /\ ~ActiveIn(observations[1].store, GetID(observations[n].call.cas[i]))
    /\ BatchIds(observations[2].call.cas) \cap BatchIds(observations[3].call.cas) # {}

\* The Active slots hold the records of the batch of call n.
HoldsBatch(n) ==
    \A i \in 1 .. Len(observations[n].call.cas) :
        /\ ActiveIn(store, GetID(observations[n].call.cas[i]))
        /\ store[activeKey(GetID(observations[n].call.cas[i]))].Value =
              MarshalCertAuthority(observations[n].call.cas[i])

\* C17: of two concurrent creates of an identity whose Active slot was absent, one
\* returns no error and the other AlreadyExists, and the Active slot holds the
\* record of the one that returned no error.
C17_OneCreateWins ==
    BothCreated
    => \E w \in 2 .. 3 :
        /\ observations[w].err = "nil"
        /\ observations[5 - w].err = "AlreadyExists"
        /\ HoldsBatch(w)

\* C17 witness: both creates have returned, with different records for the shared
\* identity; the second to run is the one that lost.
C17_Witness ==
    /\ BothCreated
    /\ Len(observations[2].call.cas) = 1 /\ Len(observations[3].call.cas) = 1
    /\ observations[2].call.cas # observations[3].call.cas
    /\ observations[2].err = "nil" /\ observations[3].err = "AlreadyExists"
    /\ HoldsBatch(2)

\* Both callers have returned from an update of valid records of one identity,
\* each carrying the revision the Active slot had at the start.
BothUpdated ==
    /\ Len(observations) = 3
    /\ \A n \in 2 .. 3 :
        /\ observations[n].call.name = "Update"
        /\ ValidateCertAuthority(observations[n].call.ca)
        /\ ActiveIn(observations[1].store, GetID(observations[n].call.ca))
        /\ observations[n].call.ca.Revision =
              observations[1].store[activeKey(GetID(observations[n].call.ca))].Revision
    /\ GetID(observations[2].call.ca) = GetID(observations[3].call.ca)

\* C18: of two concurrent updates of one identity that carry the same observed
\* revision, one returns no error and the other Conflict (CompareFailed), and the
\* Active slot holds the record of the one that returned no error.
C18_OneUpdateWins ==
    BothUpdated
    => \E w \in 2 .. 3 :
        /\ observations[w].err = "nil"
        /\ Kind(observations[5 - w].err) = "CompareFailed"
        /\ store[activeKey(GetID(observations[w].call.ca))].Value =
              MarshalCertAuthority(observations[w].call.ca)

\* C18 witness: both updates have returned, with different records; the first to
\* run won and its record, not the other's, is in the Active slot.
C18_Witness ==
    /\ BothUpdated
    /\ observations[2].call.ca.RoleMap # observations[3].call.ca.RoleMap
    /\ observations[2].err = "nil" /\ observations[3].err = "IncorrectRevision"
    /\ store[activeKey(GetID(observations[2].call.ca))].Value =
          MarshalCertAuthority(observations[2].call.ca)

\* C20: GetCertAuthority of a valid identity whose record is in the Inactive slot,
\* the Active slot absent, returns NotFound and no record.
C20_GetReadsActiveOnly ==
    [][\A c \in Callers :
        (/\ pc[c] = "Get" /\ pc'[c] # pc[c]
         /\ Check(op[c].id) /\ Inactive(op[c].id) /\ ~Active(op[c].id))
        => /\ pc'[c] = "returned"
           /\ result'[c].err = "NotFound"
           /\ result'[c].ca = NoCA]_vars

\* C20 witness: the last call was a GetCertAuthority of an identity that a
\* deactivation had moved to the Inactive slot, and it returned NotFound.
C20_Witness ==
    LET n == Len(observations) IN
    /\ n = 3
    /\ observations[2].call.name = "Deactivate" /\ observations[2].err = "nil"
    /\ observations[3].call.name = "Get" /\ observations[3].err = "NotFound"
    /\ observations[3].call.id = observations[2].call.id
    /\ Inactive(observations[3].call.id) /\ ~Active(observations[3].call.id)

SecretsReturned(stored, loadSigningKeys) ==
    IF loadSigningKeys THEN stored.Value.SigningKeys ELSE ""

\* C21: GetCertAuthority and GetCertAuthorities leave the store as it was for
\* either value of loadSigningKeys, and a record they return carries the stored
\* signing keys when loadSigningKeys is true and none when it is false.
C21_RedactionNotPersisted ==
    [][\A c \in Callers :
        /\ (pc[c] = "Get" /\ pc'[c] # pc[c])
           => /\ store' = store /\ rev' = rev
              /\ result'[c].err = "nil"
                 => result'[c].ca.SigningKeys =
                       SecretsReturned(store[activeKey(op[c].id)], op[c].loadSigningKeys)
        /\ (pc[c] = "GetCertAuthorities" /\ pc'[c] # pc[c])
           => /\ store' = store /\ rev' = rev
              /\ \A i \in 1 .. Len(result'[c].cas) :
                    result'[c].cas[i] # NoCA
                    => result'[c].cas[i].SigningKeys =
                          SecretsReturned(store[activeKey(GetID(result'[c].cas[i]))],
                                          op[c].loadSigningKeys)]_vars

\* C21 witness: a GetCertAuthority without the secrets and then one with them, of
\* the same identity; the second has returned the secrets and the store is the one
\* the calls started from.
C21_Witness ==
    /\ Len(observations) = 3
    /\ observations[2].call.name = "Get" /\ ~observations[2].call.loadSigningKeys
    /\ observations[2].err = "nil"
    /\ observations[3].call.name = "Get" /\ observations[3].call.loadSigningKeys
    /\ observations[3].call.id = observations[2].call.id
    /\ pc[observations[3].caller] = "returned"
    /\ LastResult.err = "nil" /\ LastResult.ca.SigningKeys = Secrets
    /\ store = observations[1].store

\* The slot of the user CA of a cluster that the flag names, and the other one.
SelectedSlot(name, activated) ==
    IF activated THEN activeKey([Type |-> UserCA, DomainName |-> name])
    ELSE inactiveKey([Type |-> UserCA, DomainName |-> name])

OtherSlot(name, activated) == SelectedSlot(name, ~activated)

\* C22: a successful UpdateUserCARoleMap leaves in the slot the flag selects the
\* record it read there with the role map replaced, every other field as read, and
\* leaves every other key, the other slot of the identity among them, as it was.
C22_RoleMapOnly ==
    [][\A c \in Callers :
        (pc[c] = "RoleMapSwap" /\ pc'[c] # pc[c] /\ result'[c].err = "nil")
        => /\ store'[SelectedSlot(op[c].cluster, op[c].activated)].Value =
                 [item[c].Value EXCEPT !.RoleMap = op[c].roleMap]
           /\ item[c] = store[SelectedSlot(op[c].cluster, op[c].activated)]
           /\ store'[OtherSlot(op[c].cluster, op[c].activated)] =
                 store[OtherSlot(op[c].cluster, op[c].activated)]
           /\ \A k \in Keys \ {SelectedSlot(op[c].cluster, op[c].activated)} :
                 store'[k] = store[k]]_vars

\* C22 witness: an UpdateUserCARoleMap has returned without error and the record
\* of the Inactive slot is the last thing written.
C22_Witness ==
    \E c \in Callers :
        /\ pc[c] = "returned" /\ result[c].name = "UpdateUserCARoleMap"
        /\ result[c].err = "nil"
        /\ Inactive([Type |-> UserCA, DomainName |-> "one"])
        /\ ~Active([Type |-> UserCA, DomainName |-> "one"])
        /\ store[inactiveKey([Type |-> UserCA, DomainName |-> "one"])].Revision = rev
        /\ rev = 3

\* C23: when another caller wrote the selected slot after UpdateUserCARoleMap read
\* it, the compare-and-swap fails: the call returns Conflict (CompareFailed) and
\* the other caller's write stays in the store.
C23_RoleMapConflict ==
    [][\A c \in Callers :
        (pc[c] = "RoleMapSwap" /\ pc'[c] # pc[c] /\ touched[c])
        => /\ pc'[c] = "returned"
           /\ Kind(result'[c].err) = "CompareFailed"
           /\ store' = store /\ rev' = rev]_vars

\* C23 witness: an UpdateUserCARoleMap has returned Conflict from its swap.
C23_Witness ==
    \E c \in Callers :
        /\ pc[c] = "returned" /\ result[c].name = "UpdateUserCARoleMap"
        /\ result[c].err = "SwapFailed"

\* C24: after a successful CreateCertAuthorities the Active slot of every record
\* of the batch holds the record and the Inactive slot of its identity is absent,
\* whatever it held before.
C24_CreateClearsInactive ==
    [][\A c \in Callers :
        (pc[c] = "Create" /\ pc'[c] # pc[c] /\ result'[c].err = "nil")
        => \A i \in 1 .. Len(op[c].cas) :
            /\ store'[activeKey(GetID(op[c].cas[i]))] =
                  [Value |-> MarshalCertAuthority(op[c].cas[i]), Revision |-> rev']
            /\ ~Exists(store', inactiveKey(GetID(op[c].cas[i])))]_vars

\* C24 witness: a create has returned without error after a deactivation had left
\* a record in an Inactive slot (the three revisions issued went to the first
\* create, the deactivation and this create), and no Inactive slot is occupied.
C24_Witness ==
    \E c, d \in Callers :
        /\ c # d /\ rev = 3
        /\ pc[c] = "returned" /\ result[c].name = "Create" /\ result[c].err = "nil"
        /\ pc[d] = "returned" /\ result[d].name = "Deactivate" /\ result[d].err = "nil"
        /\ \A id \in AllIds : ~Inactive(id)
        /\ \E id \in ValidIds : Active(id) /\ store[activeKey(id)].Revision = 3

\* The identities of a list that have a record in one of their slots.
Occupying(st, ids) ==
    {id \in ListedIds(ids) : Exists(st, activeKey(id)) \/ Exists(st, inactiveKey(id))}

\* C25: a DeleteCertAuthorities step either removes both slots of every listed
\* identity and returns no error, or returns an error and removes nothing; it
\* returns an error when a listed identity fails its check or the backend call
\* fails.  No state has some of the listed identities deleted and others not.
C25_DeleteAllOrNothing ==
    [][\A c \in Callers :
        (pc[c] = "Delete" /\ pc'[c] # pc[c])
        => /\ pc'[c] = "returned"
           /\ IF result'[c].err = "nil"
              THEN Occupying(store', op[c].ids) = {}
              ELSE store' = store
           /\ (\E id \in ListedIds(op[c].ids) : ~Check(id)) => result'[c].err = "BadParameter"]_vars

\* C25 witness: a delete has returned the error of its backend call and a record
\* is still in its slot.
C25_Witness ==
    \E c \in Callers, id \in ValidIds :
        /\ pc[c] = "returned" /\ result[c].name = "Delete"
        /\ result[c].err = "Unavailable"
        /\ Active(id)

\* C26: a step of ActivateCertAuthority returns no error only when the Inactive
\* slot of the identity is occupied, and then the Active slot holds its bytes and
\* the Inactive slot is absent; a step of DeactivateCertAuthority returns no error
\* only when the Active slot is occupied, and then the Inactive slot holds its
\* bytes and the Active slot is absent; for a valid identity with both slots
\* absent either operation returns an error from its read and changes nothing.
C26_SlotStateMachine ==
    [][\A c \in Callers :
        /\ (/\ pc[c] \in {"ActivateRead", "ActivateWrite"} /\ pc'[c] = "returned"
            /\ result'[c].err = "nil")
           => /\ Inactive(op[c].id)
              /\ store'[activeKey(op[c].id)].Value = store[inactiveKey(op[c].id)].Value
              /\ ~Exists(store', inactiveKey(op[c].id))
        /\ (/\ pc[c] \in {"DeactivateRead", "DeactivateWrite"} /\ pc'[c] = "returned"
            /\ result'[c].err = "nil")
           => /\ Active(op[c].id)
              /\ store'[inactiveKey(op[c].id)].Value = store[activeKey(op[c].id)].Value
              /\ ~Exists(store', activeKey(op[c].id))
        /\ (/\ pc[c] \in {"ActivateRead", "DeactivateRead"} /\ pc'[c] # pc[c]
            /\ Check(op[c].id) /\ ~Active(op[c].id) /\ ~Inactive(op[c].id))
           => /\ pc'[c] = "returned" /\ result'[c].err \notin {"nil", "none"}
              /\ store' = store /\ rev' = rev]_vars

\* C26 witness: an identity has gone from Active to Inactive and back: after the
\* create, the deactivation and the activation that took the three revisions, the
\* record is in the Active slot under the last revision, the Inactive slot absent.
C26_Witness ==
    \E c, d \in Callers, id \in ValidIds :
        /\ c # d /\ rev = 3
        /\ pc[c] = "returned" /\ result[c].name = "Activate" /\ result[c].err = "nil"
        /\ pc[d] = "returned" /\ result[d].name = "Deactivate" /\ result[d].err = "nil"
        /\ Active(id) /\ ~Inactive(id) /\ store[activeKey(id)].Revision = 3

\* The positions of a caller at a backend read that a mutating call follows, the
\* position of that mutating call, and the positions at a mutating call.
ReadSteps == {"UpsertRead", "CompareAndSwapRead", "ActivateRead", "DeactivateRead", "RoleMapRead"}

WriteAfter(p) ==
    CASE p = "UpsertRead" -> "UpsertPut"
      [] p = "CompareAndSwapRead" -> "CompareAndSwapSwap"
      [] p = "ActivateRead" -> "ActivateWrite"
      [] p = "DeactivateRead" -> "DeactivateWrite"
      [] p = "RoleMapRead" -> "RoleMapSwap"

WriteSteps ==
    {"Create", "UpsertPut", "Update", "CompareAndSwapSwap", "Delete", "DeleteAll",
     "ActivateWrite", "DeactivateWrite", "RoleMapSwap"}

\* C27: an invocation makes at most one read and then at most one mutating call:
\* the step at a read writes nothing and either returns or goes to the mutating
\* call of its operation; the step at a mutating call takes at most one revision
\* and returns, and when it returns an error it has written nothing; no step of an
\* invocation goes back to a read or to a mutating call already made.
C27_NoInternalRetry ==
    [][\A c \in Callers :
        /\ (pc[c] \in ReadSteps /\ pc'[c] # pc[c])
           => /\ pc'[c] \in {WriteAfter(pc[c]), "returned"}
              /\ store' = store /\ rev' = rev
        /\ (pc[c] \in WriteSteps /\ pc'[c] # pc[c])
           => /\ pc'[c] = "returned"
              /\ rev' \in {rev, rev + 1}
              /\ result'[c].err # "nil" => (store' = store /\ rev' = rev)
        /\ (pc[c] = "returned" /\ pc'[c] # pc[c]) => pc'[c] = "idle"]_vars

\* C27 witness: a deactivation has returned the failure of its condition after
\* another caller's delete removed the record it had read; nothing was put back.
C27_Witness ==
    \E c, d \in Callers, id \in ValidIds :
        /\ pc[c] = "returned" /\ result[c].name = "Deactivate"
        /\ result[c].err = "ConcurrentModification"
        /\ pc[d] = "returned" /\ result[d].name = "Delete" /\ result[d].err = "nil"
        /\ rev = 2 /\ ~Active(id) /\ ~Inactive(id)

\* The caller is at the first step of an operation whose argument fails its check.
RejectedAtEntry(c) ==
    \/ pc[c] \in {"UpsertRead", "Update"} /\ ~ValidateCertAuthority(op[c].ca)
    \/ pc[c] = "CompareAndSwapRead" /\ ~ValidateCertAuthority(op[c].new)
    \/ pc[c] \in {"Get", "ActivateRead", "DeactivateRead"} /\ ~Check(op[c].id)
    \/ pc[c] = "Delete" /\ \E id \in ListedIds(op[c].ids) : ~Check(id)

\* C28: UpsertCertAuthority, UpdateCertAuthority and CompareAndSwapCertAuthority
\* given an invalid CA, and GetCertAuthority, ActivateCertAuthority,
\* DeactivateCertAuthority and DeleteCertAuthorities given an invalid identity,
\* return BadParameter in their first step with the store unchanged; no backend
\* call is made, so the step cannot be a backend call that fails (Unavailable).
C28_ValidationFirst ==
    [][\A c \in Callers :
        (RejectedAtEntry(c) /\ pc'[c] # pc[c])
        => /\ pc'[c] = "returned"
           /\ result'[c].err = "BadParameter"
           /\ ~AtBackendCall(c)
           /\ store' = store /\ rev' = rev]_vars

\* C28 witness: a compare-and-swap whose new CA is invalid has returned
\* BadParameter while the record it named as expected is stored.
C28_Witness ==
    \E c \in Callers, id \in ValidIds :
        /\ pc[c] = "returned" /\ result[c].name = "CompareAndSwap"
        /\ result[c].err = "BadParameter"
        /\ Active(id)

\* C29: the step in which an operation returns an error leaves every slot of
\* the store, and the revision counter, as they were before the step.
C29_NoPartialEffect ==
    [][\A c \in Callers :
        (pc[c] # "returned" /\ pc'[c] = "returned" /\ result'[c].err # "nil")
        => (store' = store /\ rev' = rev)]_vars

\* C29 witness: a create of two CAs was refused because one of them is stored,
\* and the Inactive record of the other, which a successful create would have
\* removed, is still there.
C29_Witness ==
    \E c \in Callers, id, other \in ValidIds :
        /\ pc[c] = "returned" /\ result[c].name = "Create"
        /\ result[c].err = "AlreadyExists"
        /\ Inactive(id) /\ ~Active(id) /\ Active(other)

\* C30: whenever the batch of ActivateCertAuthority succeeds the Active slot of
\* the identity was absent before it, and whenever the batch of
\* DeactivateCertAuthority succeeds the Inactive slot was absent before it.
C30_RotationKeepsDestination ==
    [][\A c \in Callers :
        /\ (pc[c] = "ActivateWrite" /\ pc'[c] = "returned" /\ result'[c].err = "nil")
           => ~Exists(store, activeKey(op[c].id))
        /\ (pc[c] = "DeactivateWrite" /\ pc'[c] = "returned" /\ result'[c].err = "nil")
           => ~Exists(store, inactiveKey(op[c].id))]_vars

\* C31: the batch of a rotation that finds both slots of its identity absent (the
\* record it read has been deleted since) is rejected: the call returns the
\* failure of its condition and both slots stay absent.
C31_DeleteNotUndone ==
    [][\A c \in Callers :
        (/\ pc[c] \in {"ActivateWrite", "DeactivateWrite"} /\ pc'[c] # pc[c]
         /\ ~Active(op[c].id) /\ ~Inactive(op[c].id))
        => /\ pc'[c] = "returned"
           /\ result'[c].err = "ConcurrentModification"
           /\ store' = store]_vars

\* C31 witness: an activation that had read its Inactive record returned the
\* failure of its condition after a delete of the identity by the other caller
\* returned, and both slots of the identity are absent.
C31_Witness ==
    \E c, d \in Callers, i, j \in 1 .. Len(observations) :
        /\ i < j
        /\ observations[i].caller = d /\ observations[i].call.name = "Delete"
        /\ observations[i].err = "nil"
        /\ observations[j].caller = c /\ observations[j].call.name = "Activate"
        /\ observations[j].err = "ConcurrentModification"
        /\ ~Exists(observations[j].store, activeKey(observations[j].call.id))
        /\ ~Exists(observations[j].store, inactiveKey(observations[j].call.id))
        /\ Exists(observations[1].store, inactiveKey(observations[j].call.id))

\* C32: UpdateCertAuthority of a valid CA whose Active slot is absent returns an
\* error and no record, whatever revision the CA carries, and writes nothing.
C32_UpdateNeverCreates ==
    [][\A c \in Callers :
        (/\ pc[c] = "Update" /\ pc'[c] # pc[c]
         /\ ValidateCertAuthority(op[c].ca) /\ ~Active(GetID(op[c].ca)))
        => /\ pc'[c] = "returned"
           /\ Kind(result'[c].err) = "CompareFailed"
           /\ result'[c].ca = NoCA
           /\ store' = store /\ rev' = rev]_vars

\* C32 witness: an update carrying the revision of the record, which a
\* deactivation has since moved to the Inactive slot, was refused; the record is
\* still in the Inactive slot and the Active slot is absent.
C32_Witness ==
    \E c \in Callers :
        /\ pc[c] = "returned" /\ result[c].name = "Update"
        /\ result[c].err = "IncorrectRevision"
        /\ result[c].arg.Revision = 1
        /\ Inactive(GetID(result[c].arg)) /\ ~Active(GetID(result[c].arg))

RoundTripThenUpdate(id) ==
    /\ Len(observations) = 4
    /\ observations[2].call = [name |-> "Deactivate", id |-> id]
    /\ observations[2].err = "nil"
    /\ observations[3].call = [name |-> "Activate", id |-> id]
    /\ observations[3].err = "nil"
    /\ observations[4].call.name = "Update"
    /\ GetID(observations[4].call.ca) = id

\* C34: after a deactivation and an activation of an identity the Active record
\* has a revision different from the one it had before, and an update carrying
\* the revision from before is refused with a compare failure and writes nothing.
C34_FencingSurvivesRotation ==
    \A id \in ValidIds :
        RoundTripThenUpdate(id)
        => LET before == observations[1].store[activeKey(id)]
               after == observations[3].store[activeKey(id)]
           IN /\ after.Revision # before.Revision
              /\ after.Value = before.Value
              /\ observations[4].call.ca.Revision = before.Revision
                 => /\ Kind(observations[4].err) = "CompareFailed"
                    /\ observations[4].store = observations[3].store

\* C34 witness: the update carried the revision the record had before the round
\* trip and was refused; the Active slot holds the record as the activation left it.
C34_Witness ==
    \E id \in ValidIds :
        /\ RoundTripThenUpdate(id)
        /\ observations[4].call.ca.Revision = observations[1].store[activeKey(id)].Revision
        /\ observations[4].err = "IncorrectRevision"
        /\ store[activeKey(id)] = observations[3].store[activeKey(id)]
        /\ Active(id)

\* The identities the call of caller c names in its arguments.
Targets(c) ==
    CASE op[c].name \in {"Upsert", "Update"} -> {GetID(op[c].ca)}
      [] op[c].name = "CompareAndSwap" -> {GetID(op[c].new)}
      [] op[c].name \in {"Activate", "Deactivate"} -> {op[c].id}
      [] op[c].name = "UpdateUserCARoleMap" -> {[Type |-> UserCA, DomainName |-> op[c].cluster]}
      [] op[c].name = "Create" -> {GetID(op[c].cas[i]) : i \in 1 .. Len(op[c].cas)}
      [] op[c].name = "Delete" -> ListedIds(op[c].ids)
      [] OTHER -> {}

\* The two slots of an identity, spelled as the backend keys.
SlotsOf(id) ==
    {<<authoritiesPrefix, id.Type, id.DomainName>>,
     <<authoritiesPrefix, deactivatedPrefix, id.Type, id.DomainName>>}

\* C35: a step of UpsertCertAuthority, UpdateCertAuthority,
\* CompareAndSwapCertAuthority, ActivateCertAuthority, DeactivateCertAuthority,
\* UpdateUserCARoleMap, CreateCertAuthorities or DeleteCertAuthorities leaves
\* every key that is not a slot of an identity named in its arguments as it was.
C35_IdentityIsolation ==
    [][\A c \in Callers :
        (/\ pc'[c] # pc[c]
         /\ op[c].name \in {"Upsert", "Update", "CompareAndSwap", "Activate", "Deactivate",
                            "UpdateUserCARoleMap", "Create", "Delete"})
        => \A k \in Keys :
            (\A id \in Targets(c) : k \notin SlotsOf(id)) => store'[k] = store[k]]_vars

\* C35 witness: of two identities created together one was deactivated by one
\* caller and then deleted by the other; the record of the second identity is in
\* its Active slot under its first revision.
C35_Witness ==
    \E c, d \in Callers, id, other \in ValidIds :
        /\ id # other /\ c # d /\ rev = 2
        /\ pc[c] = "returned" /\ result[c].name = "Delete" /\ result[c].err = "nil"
        /\ pc[d] = "returned" /\ result[d].name = "Deactivate" /\ result[d].err = "nil"
        /\ ~Active(id) /\ ~Inactive(id)
        /\ Active(other) /\ ~Inactive(other) /\ store[activeKey(other)].Revision = 1

\* The identities of a type whose Active slot is occupied.
ActiveOfType(st, caType) ==
    {id \in ValidIds \cup StoredIds : id.Type = caType /\ Exists(st, activeKey(id))}

\* C36: GetCertAuthorities of a valid type returns one entry for each occupied
\* Active slot of the type, each the record of such a slot, and so none for a
\* record of an Inactive slot; DeleteAllCertAuthorities leaves every Inactive slot,
\* of its type and of the others, as it was.
C36_ActiveKeyspaceOnly ==
    [][\A c \in Callers :
        /\ (/\ pc[c] = "GetCertAuthorities" /\ pc'[c] = "returned"
            /\ op[c].caType \in CertAuthTypes)
           => /\ result'[c].err = "nil"
              /\ Len(result'[c].cas) = Cardinality(ActiveOfType(store, op[c].caType))
              /\ \A i \in 1 .. Len(result'[c].cas) :
                    \E id \in ActiveOfType(store, op[c].caType) :
                        result'[c].cas[i] =
                            setSigningKeys(UnmarshalCertAuthority(store[activeKey(id)].Value,
                                                                  store[activeKey(id)].Revision),
                                           op[c].loadSigningKeys)
        /\ (pc[c] = "DeleteAll" /\ pc'[c] = "returned")
           => \A id \in AllIds : store'[inactiveKey(id)] = store[inactiveKey(id)]]_vars

\* C36 witness: GetCertAuthorities("user") has returned the one record of the
\* Active slot of user/one while the Inactive slot of user/one holds a record with
\* another role map.
C36_Witness ==
    LET id == [Type |-> UserCA, DomainName |-> "one"]
    IN /\ Len(observations) = 2
       /\ observations[2].call.name = "GetCertAuthorities"
       /\ observations[2].call.caType = UserCA
       /\ \E c \in Callers :
            /\ pc[c] = "returned" /\ result[c].name = "GetCertAuthorities"
            /\ Len(result[c].cas) = 1
            /\ Active(id) /\ Inactive(id)
            /\ result[c].cas[1].RoleMap = "rm2"
            /\ UnmarshalCertAuthority(store[inactiveKey(id)].Value, 0).RoleMap = "rm1"

\* C37: the list GetCertAuthorities returns for a valid type has as many entries
\* as there are items in the Active slots of that type, every record in it is of
\* that type, and every Active record of the type that deserializes and validates
\* is in it; the items of a type whose name begins with the name of the type
\* asked for add nothing to it.
C37_ListOneType ==
    [][\A c \in Callers :
        (/\ pc[c] = "GetCertAuthorities" /\ pc'[c] = "returned"
         /\ op[c].caType \in CertAuthTypes)
        => /\ result'[c].err = "nil"
           /\ Len(result'[c].cas) = Cardinality(ActiveOfType(store, op[c].caType))
           /\ \A i \in 1 .. Len(result'[c].cas) :
                result'[c].cas[i] # NoCA => result'[c].cas[i].Type = op[c].caType
           /\ \A id \in ValidOfType(store, op[c].caType) :
                \E i \in 1 .. Len(result'[c].cas) :
                    result'[c].cas[i] =
                        setSigningKeys(UnmarshalCertAuthority(store[activeKey(id)].Value,
                                                              store[activeKey(id)].Revision),
                                       op[c].loadSigningKeys)]_vars

\* C37 witness: GetCertAuthorities("db") has returned the two records of type
\* "db" while records of type "db_client" are stored under both cluster names.
C37_Witness ==
    /\ Len(observations) = 2
    /\ observations[2].call.name = "GetCertAuthorities"
    /\ observations[2].call.caType = DatabaseCA
    /\ \A name \in StoredNames :
        /\ [Type |-> DatabaseCA, DomainName |-> name] \in ValidOfType(store, DatabaseCA)
        /\ [Type |-> DatabaseClientCA, DomainName |-> name] \in ValidOfType(store, DatabaseClientCA)
    /\ \E c \in Callers :
        /\ pc[c] = "returned" /\ result[c].name = "GetCertAuthorities"
        /\ Len(result[c].cas) = 2
        /\ \A i \in 1 .. 2 : result[c].cas[i].Type = DatabaseCA
        /\ result[c].cas[1].DomainName # result[c].cas[2].DomainName

\* The retrying caller's re-read is observation j and its resubmitted update is
\* observation k, and between the two no call left the Active slot of the identity
\* other than the re-read found it.
RereadThenResubmitted(j, k) ==
    /\ j < k
    /\ observations[j].caller = Retrier /\ observations[j].call.name = "Get"
    /\ observations[j].err = "nil"
    /\ observations[k].caller = Retrier /\ observations[k].call.name = "Update"
    /\ \A m \in (j + 1) .. (k - 1) :
        /\ observations[m].caller # Retrier
        /\ observations[m].store[activeKey(observations[j].call.id)] =
              observations[j].store[activeKey(observations[j].call.id)]

\* An update resubmitted with the revision re-read, untouched in between, returns
\* no error and its record is in the Active slot.
ResubmittedSucceeds ==
    \A j, k \in 2 .. Len(observations) :
        RereadThenResubmitted(j, k)
        => /\ observations[k].call.ca.Revision =
                 observations[j].store[activeKey(observations[j].call.id)].Revision
           /\ observations[k].err = "nil"
           /\ observations[k].store[activeKey(observations[j].call.id)].Value =
                 MarshalCertAuthority(observations[k].call.ca)

\* The retrying caller holds the compare failure of its update of a stored record.
Conflicted ==
    /\ pc[Retrier] = "returned" /\ result[Retrier].name = "Update"
    /\ Kind(result[Retrier].err) = "CompareFailed"
    /\ Active(GetID(result[Retrier].arg))

\* The retrying caller's update has returned no error.
Succeeded ==
    /\ pc[Retrier] = "returned" /\ result[Retrier].name = "Update"
    /\ result[Retrier].err = "nil"

\* C38: an update resubmitted with the revision re-read by GetCertAuthority after
\* a compare failure succeeds when no other writer touched the identity in
\* between; and a caller that keeps re-reading and resubmitting after a compare
\* failure on a stored record eventually has an update that succeeds.
C38_RetryMakesProgress == []ResubmittedSucceeds /\ (Conflicted ~> Succeeded)

\* C38 witness: the caller's update was refused, it re-read the record after the
\* other caller's write and its resubmitted update returned no error; the Active
\* slot holds the record with the role map it wanted.
C38_Witness ==
    \E i, j \in 2 .. Len(observations) :
        /\ i < j /\ j + 1 = Len(observations)
        /\ observations[i].caller = Retrier /\ observations[i].call.name = "Update"
        /\ observations[i].err = "IncorrectRevision"
        /\ \E m \in 2 .. (i - 1) : observations[m].caller = Writer /\ observations[m].err = "nil"
        /\ RereadThenResubmitted(j, j + 1)
        /\ Succeeded
        /\ store[activeKey(observations[j].call.id)].Value.RoleMap = Wanted

====
